---- MODULE Spec2Model ----
(***************************************************************************)
(* Health Planner: order entry with duplicate detection and versioned      *)
(* updates (OrderEntry.tsx), the pharmacist review (PharmacistReview.tsx), *)
(* the export (ExportData in WarningsDisplay.tsx) and the document store   *)
(* (Firestore collections orders, patients, providers).                    *)
(*                                                                         *)
(* Text is a sequence of one-character strings, so that trimming,          *)
(* splitting, joining and the regular expressions of the code are          *)
(* computed and not assumed.  A care plan is an opaque non-empty string.   *)
(***************************************************************************)
EXTENDS Integers, Sequences, FiniteSets, TLC

(***************************************************************************)
(* Bounds of the model.                                                    *)
(***************************************************************************)
\* Order documents the store may hold.
MaxOrders == 2
\* Order documents the store may hold when two sessions run side by side.
MaxOrdersTwo == 1
\* History entries one order may hold.
MaxHistory == 1

(***************************************************************************)
(* Characters and text.                                                    *)
(***************************************************************************)
Digits == {"0", "1", "2", "3", "4", "5", "6", "7", "8", "9"}

UpperSeq ==
  <<"A", "B", "C", "D", "E", "F", "G", "H", "I", "J", "K", "L", "M",
    "N", "O", "P", "Q", "R", "S", "T", "U", "V", "W", "X", "Y", "Z">>

LowerSeq ==
  <<"a", "b", "c", "d", "e", "f", "g", "h", "i", "j", "k", "l", "m",
    "n", "o", "p", "q", "r", "s", "t", "u", "v", "w", "x", "y", "z">>

Range(f) == {f[i] : i \in DOMAIN f}

Upper == Range(UpperSeq)

Lower == Range(LowerSeq)

\* What the regular expression class \s and String.prototype.trim remove.
Whitespace == {" ", "\t", "\n"}

\* String.prototype.toLowerCase, character by character.
LowerChar(c) ==
  IF c \in Upper
    THEN LowerSeq[CHOOSE i \in DOMAIN UpperSeq : UpperSeq[i] = c]
    ELSE c

toLowerCase(str) == [i \in DOMAIN str |-> LowerChar(str[i])]

RECURSIVE TrimStart(_)
TrimStart(str) ==
  IF str # <<>> /\ Head(str) \in Whitespace THEN TrimStart(Tail(str)) ELSE str

RECURSIVE TrimEnd(_)
TrimEnd(str) ==
  IF str # <<>> /\ str[Len(str)] \in Whitespace
    THEN TrimEnd(SubSeq(str, 1, Len(str) - 1))
    ELSE str

\* String.prototype.trim.
trim(str) == TrimEnd(TrimStart(str))

\* Array.prototype.filter(item => item): drops the empty strings.
RECURSIVE FilterNonEmpty(_)
FilterNonEmpty(list) ==
  IF list = <<>> THEN <<>>
  ELSE IF Head(list) = <<>> THEN FilterNonEmpty(Tail(list))
  ELSE <<Head(list)>> \o FilterNonEmpty(Tail(list))

\* String.prototype.split(','): always at least one piece.
RECURSIVE SplitComma(_)
SplitComma(str) ==
  IF \A i \in DOMAIN str : str[i] # ","
    THEN <<str>>
    ELSE LET k == CHOOSE i \in DOMAIN str :
                     str[i] = "," /\ \A j \in 1..(i - 1) : str[j] # ","
         IN  <<SubSeq(str, 1, k - 1)>> \o SplitComma(SubSeq(str, k + 1, Len(str)))

\* value.split(',').map(item => item.trim()).filter(item => item)
ParseList(str) ==
  LET pieces == SplitComma(str)
  IN  FilterNonEmpty([i \in DOMAIN pieces |-> trim(pieces[i])])

\* Array.prototype.join(', ')
RECURSIVE JoinComma(_)
JoinComma(list) ==
  IF list = <<>> THEN <<>>
  ELSE IF Len(list) = 1 THEN Head(list)
  ELSE Head(list) \o <<",", " ">> \o JoinComma(Tail(list))

(***************************************************************************)
(* validateField of OrderEntry: the message for one field, <<>> for none.  *)
(***************************************************************************)
MRNLength == 6

NPILength == 10

MsgRequired == "This field is required"

MsgName == "Name must contain only letters, spaces, hyphens, or apostrophes"

MsgMRN == "Must be exactly 6 digits"

MsgICD == "Invalid ICD-10 format"

MsgNPI == "Must be exactly 10 digits"

NoError == ""

\* /^[A-Za-z\s'-]+$/
MatchesName(value) ==
  /\ Len(value) >= 1
  /\ \A i \in DOMAIN value : value[i] \in Upper \cup Lower \cup Whitespace \cup {"'", "-"}

\* /^[0-9]{n}$/
MatchesDigits(value, n) ==
  /\ Len(value) = n
  /\ \A i \in DOMAIN value : value[i] \in Digits

\* /^[A-Z][0-9]{2}\.?[0-9A-Z]*$/
MatchesICD(value) ==
  /\ Len(value) >= 3
  /\ value[1] \in Upper
  /\ value[2] \in Digits
  /\ value[3] \in Digits
  /\ LET rest == SubSeq(value, 4, Len(value))
         tail == IF rest # <<>> /\ Head(rest) = "." THEN Tail(rest) ELSE rest
     IN  \A i \in DOMAIN tail : tail[i] \in Digits \cup Upper

\* validateField with the test of providerNPI left out.
validateFieldNoNPI(name, value) ==
  IF trim(value) = <<>> THEN MsgRequired
  ELSE IF name \in {"patientFirstName", "patientLastName"} /\ ~MatchesName(value)
    THEN MsgName
  ELSE IF name = "patientMRN" /\ ~MatchesDigits(value, MRNLength) THEN MsgMRN
  ELSE IF name = "primaryDiagnosis" /\ ~MatchesICD(value) THEN MsgICD
  ELSE NoError

validateField(name, value) ==
  IF trim(value) = <<>> THEN MsgRequired
  ELSE IF name \in {"patientFirstName", "patientLastName"} /\ ~MatchesName(value)
    THEN MsgName
  ELSE IF name = "patientMRN" /\ ~MatchesDigits(value, MRNLength) THEN MsgMRN
  ELSE IF name = "primaryDiagnosis" /\ ~MatchesICD(value) THEN MsgICD
  ELSE IF name = "providerNPI" /\ ~MatchesDigits(value, NPILength) THEN MsgNPI
  ELSE NoError

requiredFields ==
  <<"patientFirstName", "patientLastName", "patientMRN", "primaryDiagnosis",
    "referringProvider", "providerNPI", "medicationName", "patientRecords">>

\* newErrors of handleSubmit: a message for every field that has one.
SubmitErrors(form) ==
  LET bad == {f \in Range(requiredFields) : validateField(f, form[f]) # NoError}
  IN  [f \in bad |-> validateField(f, form[f])]

(***************************************************************************)
(* The values the users of the model type.                                 *)
(***************************************************************************)
Ann == <<"A", "n", "n">>

Bob == <<"B", "o", "b">>

Lee == <<"L", "e", "e">>

MRN1 == <<"1", "2", "3", "4", "5", "6">>

ICD1 == <<"G", "7", "0", ".", "0">>

DrA == <<"D", "r", " ", "A">>

DrB == <<"D", "r", " ", "B">>

NPI1 == <<"1", "2", "3", "4", "5", "6", "7", "8", "9", "0">>

NPI2 == <<"2", "2", "3", "4", "5", "6", "7", "8", "9", "0">>

Med1 == <<"I", "V", "I", "G">>

Med2 == <<"A", "l", "b">>

Rec1 == <<"r", "1">>

Rec2 == <<"r", "2">>

Dx1 == <<"E", "1", "1">>

Dx2 == <<"I", "1", "0">>

\* What the AI service may answer with.
Plans == {"plan1", "plan2"}

\* carePlan of the component before any plan was generated (null).
NoPlan == ""

\* A field a document does not have.
Undefined == <<"undefined">>

\* A timestamp a document does not have.
NoTime == 0

(***************************************************************************)
(* FormData (types/index.ts) and what the user types into the form: the    *)
(* eight text inputs hold text, the two list inputs hold comma-separated   *)
(* text that handleArrayInputChange parses.                                *)
(***************************************************************************)
TextFields == Range(requiredFields)

ListFields == {"additionalDiagnoses", "medicationHistory"}

FormFields == TextFields \cup ListFields

\* useState<FormData>({...}) of OrderEntry.
InitialFormData ==
  [patientFirstName |-> <<>>, patientLastName |-> <<>>, patientMRN |-> <<>>,
   primaryDiagnosis |-> <<>>, referringProvider |-> <<>>, providerNPI |-> <<>>,
   medicationName |-> <<>>, additionalDiagnoses |-> <<>>,
   medicationHistory |-> <<>>, patientRecords |-> <<>>]

\* handleInputChange / handleArrayInputChange: setFormData(prev => ({...prev, [name]: value})).
SetField(form, name, value) ==
  [form EXCEPT ![name] = IF name \in ListFields THEN ParseList(value) ELSE value]

\* The change events that bring every input of the form to the typed text.
RECURSIVE SetFields(_, _, _)
SetFields(form, typed, names) ==
  IF names = {} THEN form
  ELSE LET n == CHOOSE x \in names : TRUE
       IN  SetFields(SetField(form, n, typed[n]), typed, names \ {n})

Typed(fn, ln, mrn, icd, prov, npi, med, dx, hist, rec) ==
  [patientFirstName |-> fn, patientLastName |-> ln, patientMRN |-> mrn,
   primaryDiagnosis |-> icd, referringProvider |-> prov, providerNPI |-> npi,
   medicationName |-> med, additionalDiagnoses |-> dx,
   medicationHistory |-> hist, patientRecords |-> rec]

\* Ann Lee's order, a second medication for her, and the same four keys
\* typed with another patient and provider name.
FormA == Typed(Ann, Lee, MRN1, ICD1, DrA, NPI1, Med1, Dx1, <<>>, Rec1)

FormB == Typed(Ann, Lee, MRN1, ICD1, DrA, NPI1, Med2, <<>>, <<>>, Rec1)

FormC == Typed(Bob, Lee, MRN1, ICD1, DrB, NPI1, Med1, Dx1, <<>>, Rec1)

\* Bob Lee under Ann Lee's MRN, with her second medication.
FormD == Typed(Bob, Lee, MRN1, ICD1, DrA, NPI1, Med2, <<>>, <<>>, Rec1)

\* Ann Lee's second medication, ordered by Dr A under another NPI.
FormE == Typed(Ann, Lee, MRN1, ICD1, DrA, NPI2, Med2, <<>>, <<>>, Rec1)

\* A form with one input typed differently.
With(typed, name, value) == [typed EXCEPT ![name] = value]

\* Ann Lee's order with one required input left empty, with one input blank
\* or malformed, with well-formed variants, and with several inputs wrong.
FormInputs ==
  {FormA, InitialFormData}
    \cup {With(FormA, name, <<>>) : name \in TextFields}
    \cup {With(FormA, "patientFirstName", <<" ">>),
          With(FormA, "patientFirstName", <<"A", "1">>),
          With(FormA, "patientLastName", <<"O", "'", "N", "-", "L">>),
          With(FormA, "patientLastName", <<"L", "e", "e", ".">>),
          With(FormA, "patientMRN", <<"1", "2", "3", "4", "5">>),
          With(FormA, "patientMRN", <<"1", "2", "3", "4", "5", "a">>),
          With(FormA, "primaryDiagnosis", <<"g", "7", "0", ".", "0">>),
          With(FormA, "primaryDiagnosis", <<"G", "7">>),
          With(FormA, "primaryDiagnosis", <<"G", "7", "0">>),
          With(FormA, "referringProvider", <<"\t">>),
          With(FormA, "providerNPI", <<"1", "2", "3", "4", "5", "6", "7", "8", "9">>),
          With(FormA, "providerNPI", <<"1", "2", "3", "4", "5", "6", "7", "8", "9", "x">>),
          With(FormA, "patientRecords", <<" ", "\n">>),
          With(With(With(FormA, "patientFirstName", <<"A", "1">>),
                    "patientMRN", <<"1", "2", "3", "4", "5">>),
               "providerNPI", <<>>)}

\* What the user types into the three inputs of the update form.
TypedUpdate(dx, hist, rec) ==
  [additionalDiagnoses |-> dx, medicationHistory |-> hist, patientRecords |-> rec]

UpdateA == TypedUpdate(<<" ">> \o Dx2 \o <<",", ",", " ">> \o Dx1, Med2, Rec2)

\* useState({additionalDiagnoses: '', medicationHistory: '', patientRecords: ''})
InitialUpdateFields == TypedUpdate(<<>>, <<>>, <<>>)

UpdateFieldNames == {"additionalDiagnoses", "medicationHistory", "patientRecords"}

(***************************************************************************)
(* The sessions (one mounted OrderEntry each) and the handler runs.        *)
(***************************************************************************)
Sessions == {"s1", "s2"}

\* A run of handleSubmit or handleSubmitUpdate with everything it awaits:
\* one of each session, and a second one of the first session, started by
\* a click while the first run awaits.
Tasks == {"t1", "t2", "t3"}

Owner(t) == IF t \in {"t1", "t3"} THEN "s1" ELSE "s2"

\* The first run of a session.
RunOf(s) == IF s = "s1" THEN "t1" ELSE "t2"

VARIABLES
  orders,              \* collection 'orders': documents in creation order
  patients,            \* collection 'patients'
  providers,           \* collection 'providers'
  now,                 \* the clock that serverTimestamp and Timestamp.now read
  formData,            \* per session: useState formData
  warnings,            \* per session: useState warnings
  loading,             \* per session: useState loading
  errors,              \* per session: useState errors
  duplicateFound,      \* per session: useState duplicateFound, <<>> for null
  showDuplicateDialog, \* per session
  showUpdateForm,      \* per session
  updateFields,        \* per session
  debounce,            \* per session: the 500 ms timer of the effect is armed
  pc,                  \* per task: where the handler run is waiting
  frame,               \* per task: what the closures of the run hold
  calls,               \* per task: calls the current run has made so far
  reviewOrders,        \* PharmacistReview: useState orders, copies of documents
  selectedOrder,       \* PharmacistReview: useState selectedOrder, <<>> for null
  feedback,            \* PharmacistReview: useState feedback
  pharmacistName,      \* PharmacistReview: useState pharmacistName
  reviewLoading,       \* PharmacistReview: useState loading
  regenerating,        \* PharmacistReview: useState regenerating
  improvedCarePlan,    \* PharmacistReview: useState improvedCarePlan, NoPlan for null
  showImprovedPlan,    \* PharmacistReview: useState showImprovedPlan
  reviewPc,            \* where the review tab's store call is waiting
  reviewFrame,         \* what the closure of that handler run holds
  startDate,           \* ExportData: useState startDate, <<>> for ''
  endDate,             \* ExportData: useState endDate, <<>> for ''
  medFilter,           \* ExportData: useState medFilter
  stats,               \* ExportData: useState stats, <<>> for null
  exported,            \* what the last run of handleExport did
  checks,              \* per session: the forms of the calls of checkDuplicates under way
  argument,            \* validation.ts: what a validator is called with
  returned             \* validation.ts: what the last call of a validator returned

store == <<orders, patients, providers>>

ui ==
  <<formData, warnings, loading, errors, duplicateFound,
    showDuplicateDialog, showUpdateForm, updateFields, debounce>>

\* The state of the review tab.
review ==
  <<reviewOrders, selectedOrder, feedback, pharmacistName, reviewLoading,
    regenerating, improvedCarePlan, showImprovedPlan, reviewPc, reviewFrame>>

\* The state of the export tab.
exportTab == <<startDate, endDate, medFilter, stats, exported>>

\* The argument and the result of a call of a validator of validation.ts.
validation == <<argument, returned>>

vars == <<orders, patients, providers, now, formData, warnings, loading,
          errors, duplicateFound, showDuplicateDialog, showUpdateForm,
          updateFields, debounce, pc, frame, calls, review, exportTab,
          validation, checks>>

\* The calls of a run: which handler it is, how it ended, and how many
\* requests it has sent to the AI service and to the store.
NoCalls == [op |-> "none", result |-> "none", generate |-> 0, reads |-> 0, writes |-> 0]

Started(op) == [NoCalls EXCEPT !.op = op, !.result = "running"]

Ended(op, result) == [NoCalls EXCEPT !.op = op, !.result = result]

\* The record of a finished run is kept until the next event of its session.
Forgotten(s) ==
  [t \in Tasks |-> IF Owner(t) = s /\ pc[t] = "idle" THEN NoCalls ELSE calls[t]]

\* The closure of a review handler that is not running: the document it
\* writes to and the fields it writes.
NoReviewFrame ==
  [id |-> 0, approvalStatus |-> "undefined", carePlan |-> NoPlan,
   pharmacistFeedback |-> <<>>, correctionHistory |-> <<>>]

\* handleExport has not run: no file, no alert; a run records the filters
\* its closure held and the ids of the orders it passed on.
NotExported ==
  [kind |-> "none", ids |-> <<>>, startDate |-> <<>>, endDate |-> <<>>,
   medFilter |-> <<>>]

\* The closures of a run that has not started.
NoFrame ==
  [kind |-> "none", form |-> InitialFormData, dup |-> <<>>,
   upd |-> InitialUpdateFields, plan |-> NoPlan, entry |-> <<>>,
   patientDoc |-> 0, providerEmpty |-> TRUE]

\* No validator has been called.
NotCalled == [fn |-> "none", result |-> FALSE]

\* Every tab as it is mounted, the fields of the order form aside.
InitOtherState ==
  /\ checks = [s \in Sessions |-> {}]
  /\ warnings = [s \in Sessions |-> <<>>]
  /\ loading = [s \in Sessions |-> FALSE]
  /\ errors = [s \in Sessions |-> <<>>]
  /\ duplicateFound = [s \in Sessions |-> <<>>]
  /\ showDuplicateDialog = [s \in Sessions |-> FALSE]
  /\ showUpdateForm = [s \in Sessions |-> FALSE]
  /\ updateFields = [s \in Sessions |-> InitialUpdateFields]
  /\ debounce = [s \in Sessions |-> TRUE]
  /\ pc = [t \in Tasks |-> "idle"]
  /\ frame = [t \in Tasks |-> NoFrame]
  /\ calls = [t \in Tasks |-> NoCalls]
  /\ reviewOrders = <<>>
  /\ selectedOrder = <<>>
  /\ feedback = <<>>
  /\ pharmacistName = <<>>
  /\ reviewLoading = FALSE
  /\ regenerating = FALSE
  /\ improvedCarePlan = NoPlan
  /\ showImprovedPlan = FALSE
  /\ reviewPc = "unmounted"
  /\ reviewFrame = NoReviewFrame
  /\ startDate = <<>>
  /\ endDate = <<>>
  /\ medFilter = <<>>
  /\ stats = <<>>
  /\ exported = NotExported

\* Every tab as it is mounted.
InitTabs ==
  /\ formData = [s \in Sessions |-> InitialFormData]
  /\ InitOtherState

\* The store as it is created.
InitStore ==
  /\ orders = <<>>
  /\ patients = <<>>
  /\ providers = <<>>
  /\ now = 1

\* No validator of validation.ts is called.
InitValidation ==
  /\ argument = <<>>
  /\ returned = NotCalled

Init ==
  /\ InitStore
  /\ InitTabs
  /\ InitValidation

(***************************************************************************)
(* Documents.                                                              *)
(***************************************************************************)
\* addDoc(collection(db, 'orders'), {...formData, carePlan, timestamp, history: []}).
\* The review fields (types/index.ts, Order) are absent from a new document.
NewOrder(form, plan, ts) ==
  [patientFirstName |-> form.patientFirstName,
   patientLastName |-> form.patientLastName,
   patientMRN |-> form.patientMRN,
   primaryDiagnosis |-> form.primaryDiagnosis,
   referringProvider |-> form.referringProvider,
   providerNPI |-> form.providerNPI,
   medicationName |-> form.medicationName,
   additionalDiagnoses |-> form.additionalDiagnoses,
   medicationHistory |-> form.medicationHistory,
   patientRecords |-> form.patientRecords,
   carePlan |-> plan,
   timestamp |-> ts,
   history |-> <<>>,
   lastUpdated |-> NoTime,
   approvalStatus |-> "undefined",
   pharmacistFeedback |-> <<>>,
   correctionHistory |-> <<>>]

\* historyEntry of handleSubmitUpdate, from the document as duplicateFound holds it.
HistoryEntry(existingData, ts) ==
  [timestamp |-> ts,
   additionalDiagnoses |-> existingData.additionalDiagnoses,
   medicationHistory |-> existingData.medicationHistory,
   patientRecords |-> existingData.patientRecords,
   carePlan |-> existingData.carePlan]

\* The first document of a query snapshot.  Firestore returns documents in
\* the order of their generated identifiers, which are random: the first of
\* the matching documents may be any of them; 0 stands for an empty snapshot.
FirstOf(matching) == IF matching = {} THEN {0} ELSE matching

(***************************************************************************)
(* generateCarePlan (api.ts): what the HTTP call came back with, and what  *)
(* the function makes of it.                                               *)
(***************************************************************************)
ResponsesWith(plans) ==
  [kind : {"ok"}, carePlan : plans \cup {""}]
    \cup [kind : {"http", "network"}, carePlan : {""}]

Responses == ResponsesWith(Plans)

\* generateCarePlan without the test of response.data.carePlan.
generateCarePlanAnyBody(response) == response.kind = "ok"

\* TRUE when generateCarePlan returns; it throws otherwise.
generateCarePlanReturns(response) ==
  response.kind = "ok" /\ response.carePlan # ""

\* The answers of a service that does not fail.
OkResponsesWith(plans) == {r \in ResponsesWith(plans) : generateCarePlanReturns(r)}

OkResponses == OkResponsesWith(Plans)

(***************************************************************************)
(* checkDuplicates: the warnings for a form against the store.             *)
(***************************************************************************)
Warning(type, severity, message) ==
  [type |-> type, severity |-> severity, message |-> message]

WarnIf(cond, w) == IF cond THEN <<w>> ELSE <<>>

PatientChecksRun(form) ==
  /\ form.patientMRN # <<>>
  /\ Len(form.patientMRN) = MRNLength
  /\ form.patientFirstName # <<>>
  /\ form.patientLastName # <<>>

OrderCheckRuns(form) ==
  /\ form.patientMRN # <<>>
  /\ form.medicationName # <<>>
  /\ form.primaryDiagnosis # <<>>
  /\ form.providerNPI # <<>>
  /\ Len(form.patientMRN) = MRNLength
  /\ Len(form.providerNPI) = NPILength

ProviderChecksRun(form) ==
  /\ form.referringProvider # <<>>
  /\ form.providerNPI # <<>>
  /\ Len(form.providerNPI) = NPILength

\* where('patientMRN', '==', patientMRN)
OrdersByMRN(ords, mrn) == {i \in DOMAIN ords : ords[i].patientMRN = mrn}

\* where('patientFirstName', '==', ...), where('patientLastName', '==', ...)
OrdersByName(ords, fn, ln) ==
  {i \in DOMAIN ords : ords[i].patientFirstName = fn /\ ords[i].patientLastName = ln}

\* where('patientMRN', '==', ...), where('medicationName', '==', ...)
OrdersByMRNAndMedication(ords, form) ==
  {i \in DOMAIN ords :
     /\ ords[i].patientMRN = form.patientMRN
     /\ ords[i].medicationName = form.medicationName}

\* docs.find(...) comparing the provider's name in place of the NPI.
ExactMatchesByProviderName(ords, form) ==
  {i \in OrdersByMRNAndMedication(ords, form) :
     /\ ords[i].primaryDiagnosis = form.primaryDiagnosis
     /\ ords[i].referringProvider = form.referringProvider}

\* docs.find(...) that accepts no document.
ExactMatchesNone(ords, form) == {}

\* The documents docs.find(...) of the exact-duplicate test accepts.
ExactMatches(ords, form) ==
  {i \in OrdersByMRNAndMedication(ords, form) :
     /\ ords[i].primaryDiagnosis = form.primaryDiagnosis
     /\ ords[i].providerNPI = form.providerNPI}

ProvidersByName(provs, name) == {i \in DOMAIN provs : provs[i].name = name}

ProvidersByNPI(provs, npi) == {i \in DOMAIN provs : provs[i].npi = npi}

MRNMismatch(ords, form, i) ==
  WarnIf(/\ PatientChecksRun(form)
         /\ i # 0
         /\ \/ toLowerCase(ords[i].patientFirstName) # toLowerCase(form.patientFirstName)
            \/ toLowerCase(ords[i].patientLastName) # toLowerCase(form.patientLastName),
         Warning("patient", "error", "MRN MISMATCH"))

NameMismatch(ords, form, j) ==
  WarnIf(/\ PatientChecksRun(form)
         /\ j # 0
         /\ ords[j].patientMRN # form.patientMRN,
         Warning("patient", "error", "PATIENT NAME MISMATCH"))

PotentialDuplicate(ords, form) ==
  WarnIf(OrderCheckRuns(form) /\ ExactMatches(ords, form) # {},
         Warning("order", "warning", "POTENTIAL DUPLICATE"))

NPIMismatch(provs, form, k) ==
  WarnIf(/\ ProviderChecksRun(form)
         /\ k # 0
         /\ provs[k].npi # form.providerNPI,
         Warning("provider", "error", "NPI MISMATCH"))

ProviderNameMismatch(provs, form, l) ==
  WarnIf(/\ ProviderChecksRun(form)
         /\ l # 0
         /\ toLowerCase(provs[l].name) # toLowerCase(form.referringProvider),
         Warning("provider", "error", "PROVIDER NAME MISMATCH"))

\* newWarnings of checkDuplicates, for every first document the four
\* docs[0] reads may see.
CheckDuplicatesResults(form, ords, provs) ==
  {MRNMismatch(ords, form, i) \o NameMismatch(ords, form, j)
     \o PotentialDuplicate(ords, form)
     \o NPIMismatch(provs, form, k) \o ProviderNameMismatch(provs, form, l) :
       i \in FirstOf(OrdersByMRN(ords, form.patientMRN)),
       j \in FirstOf(OrdersByName(ords, form.patientFirstName, form.patientLastName)),
       k \in FirstOf(ProvidersByName(provs, form.referringProvider)),
       l \in FirstOf(ProvidersByNPI(provs, form.providerNPI))}

\* warnings.filter(w => w.type === 'error')
blockingErrorsByType(ws) == SelectSeq(ws, LAMBDA w : w.type = "error")

\* warnings.filter(w => w.severity === 'error')
blockingErrors(ws) == SelectSeq(ws, LAMBDA w : w.severity = "error")

(***************************************************************************)
(* Editing the form.                                                       *)
(***************************************************************************)
\* The change events of filling in the whole form (handleInputChange and
\* handleArrayInputChange), before the timer fires.  A change of formData
\* re-runs the effect, which re-arms the 500 ms timer.
TypeForm(s, typed) ==
  /\ formData' = [formData EXCEPT ![s] = SetFields(@, typed, FormFields)]
  /\ debounce' = [debounce EXCEPT ![s] = TRUE]
  /\ UNCHANGED <<checks, validation, exportTab, review, store, now, warnings, loading, errors, duplicateFound,
                 showDuplicateDialog, showUpdateForm, updateFields,
                 pc, frame>>
  /\ calls' = Forgotten(s)

\* handleReset, confirmed.
HandleReset(s) ==
  /\ formData' = [formData EXCEPT ![s] = InitialFormData]
  /\ warnings' = [warnings EXCEPT ![s] = <<>>]
  /\ errors' = [errors EXCEPT ![s] = <<>>]
  /\ debounce' = [debounce EXCEPT ![s] = TRUE]
  /\ UNCHANGED <<checks, validation, exportTab, review, store, now, loading, duplicateFound, showDuplicateDialog,
                 showUpdateForm, updateFields, pc, frame>>
  /\ calls' = Forgotten(s)

\* The timer of the effect fires and checkDuplicates runs on the form of
\* that render; its queries are read at one instant of the store.
CheckDuplicates(s) ==
  /\ debounce[s]
  /\ debounce' = [debounce EXCEPT ![s] = FALSE]
  /\ \E newWarnings \in CheckDuplicatesResults(formData[s], orders, providers) :
       warnings' = [warnings EXCEPT ![s] = newWarnings]
  /\ UNCHANGED <<checks, validation, exportTab, review, store, now, formData, loading, errors, duplicateFound,
                 showDuplicateDialog, showUpdateForm, updateFields,
                 pc, frame>>
  /\ calls' = Forgotten(s)

\* A query of checkDuplicates throws: the catch logs, warnings stay.
CheckDuplicatesFail(s) ==
  /\ debounce[s]
  /\ debounce' = [debounce EXCEPT ![s] = FALSE]
  /\ UNCHANGED <<checks, validation, exportTab, review, store, now, formData, warnings, loading, errors,
                 duplicateFound, showDuplicateDialog, showUpdateForm, updateFields, pc, frame>>
  /\ calls' = Forgotten(s)

(***************************************************************************)
(* handleSubmit, checkForExactDuplicate, submitOrder.                      *)
(***************************************************************************)
\* handleSubmit up to its first await: validation, the blocking warnings,
\* then the query of checkForExactDuplicate is sent.
HandleSubmit(t) ==
  LET s == Owner(t)
      newErrors == SubmitErrors(formData[s])
  IN
  /\ pc[t] = "idle"
  /\ IF DOMAIN newErrors # {}
       THEN /\ errors' = [errors EXCEPT ![s] = newErrors]
            /\ calls' = [calls EXCEPT ![t] = Ended("handleSubmit", "invalid")]
            /\ UNCHANGED <<pc, frame>>
     ELSE IF blockingErrors(warnings[s]) # <<>>
       THEN /\ calls' = [calls EXCEPT ![t] = Ended("handleSubmit", "blocked")]
            /\ UNCHANGED <<errors, pc, frame>>
     ELSE /\ pc' = [pc EXCEPT ![t] = "dupQuery"]
          /\ frame' = [frame EXCEPT ![t] =
                         [NoFrame EXCEPT !.kind = "submit", !.form = formData[s]]]
          /\ calls' = [calls EXCEPT ![t] = [Started("handleSubmit") EXCEPT !.reads = 1]]
          /\ UNCHANGED errors
  /\ UNCHANGED <<checks, validation, exportTab, review, store, now, formData, warnings, loading, duplicateFound,
                 showDuplicateDialog, showUpdateForm, updateFields, debounce>>

\* Orders that runs in flight are about to add.
OrdersInFlight == Cardinality({u \in Tasks : pc[u] \in {"generate", "addOrder"}})

\* checkForExactDuplicate resolves.  With a match handleSubmit opens the
\* duplicate dialog; with none it calls submitOrder, which sets loading and
\* sends the request of generateCarePlan (while the store has room for the
\* order: room bounds the model).
DupQueryReturn(t, room) ==
  LET s == Owner(t)
      exact == ExactMatches(orders, frame[t].form)
  IN
  /\ pc[t] = "dupQuery"
  /\ \E i \in FirstOf(exact) :
       IF i # 0
         THEN /\ duplicateFound' = [duplicateFound EXCEPT ![s] =
                                      <<[id |-> i, data |-> orders[i]]>>]
              /\ showDuplicateDialog' = [showDuplicateDialog EXCEPT ![s] = TRUE]
              /\ pc' = [pc EXCEPT ![t] = "idle"]
              /\ frame' = [frame EXCEPT ![t] = NoFrame]
              /\ calls' = [calls EXCEPT ![t].result = "prompt"]
              /\ UNCHANGED loading
         ELSE /\ Len(orders) + OrdersInFlight < room
              /\ loading' = [loading EXCEPT ![s] = TRUE]
              /\ pc' = [pc EXCEPT ![t] = "generate"]
              /\ calls' = [calls EXCEPT ![t].generate = @ + 1]
              /\ UNCHANGED <<duplicateFound, showDuplicateDialog, frame>>
  /\ UNCHANGED <<checks, validation, exportTab, review, store, now, formData, warnings, errors, showUpdateForm,
                 updateFields, debounce>>

\* The query of checkForExactDuplicate throws: handleSubmit has no catch
\* and its promise rejects.
DupQueryFail(t) ==
  /\ pc[t] = "dupQuery"
  /\ pc' = [pc EXCEPT ![t] = "idle"]
  /\ frame' = [frame EXCEPT ![t] = NoFrame]
  /\ calls' = [calls EXCEPT ![t].result = "rejected"]
  /\ UNCHANGED <<checks, validation, exportTab, review, store, now, ui>>

\* catch and finally of submitOrder.
SubmitOrderCatch(t) ==
  LET s == Owner(t) IN
  /\ loading' = [loading EXCEPT ![s] = FALSE]
  /\ pc' = [pc EXCEPT ![t] = "idle"]
  /\ frame' = [frame EXCEPT ![t] = NoFrame]
  /\ calls' = [calls EXCEPT ![t].result = "failed"]

\* generateCarePlan of submitOrder settles: with a plan the order document
\* is sent to the store, otherwise the catch runs.
GenerateReturn(t, response) ==
  LET s == Owner(t) IN
  /\ pc[t] = "generate"
  /\ IF generateCarePlanReturns(response)
       THEN /\ frame' = [frame EXCEPT ![t].plan = response.carePlan]
            /\ pc' = [pc EXCEPT ![t] = "addOrder"]
            /\ calls' = [calls EXCEPT ![t].writes = @ + 1]
            /\ UNCHANGED loading
       ELSE SubmitOrderCatch(t)
  /\ UNCHANGED <<checks, validation, exportTab, review, store, now, formData, warnings, errors, duplicateFound,
                 showDuplicateDialog, showUpdateForm, updateFields, debounce>>

\* addDoc of the order resolves; updatePatientMaster sends its query.
AddOrderDone(t) ==
  /\ pc[t] = "addOrder"
  /\ orders' = Append(orders, NewOrder(frame[t].form, frame[t].plan, now))
  /\ now' = now + 1
  /\ pc' = [pc EXCEPT ![t] = "patientQuery"]
  /\ calls' = [calls EXCEPT ![t].reads = @ + 1]
  /\ UNCHANGED <<checks, validation, exportTab, review, patients, providers, ui, frame>>

\* addDoc of the order throws.
AddOrderFail(t) ==
  /\ pc[t] = "addOrder"
  /\ SubmitOrderCatch(t)
  /\ UNCHANGED <<checks, validation, exportTab, review, store, now, formData, warnings, errors, duplicateFound,
                 showDuplicateDialog, showUpdateForm, updateFields, debounce>>

(***************************************************************************)
(* updatePatientMaster: called by submitOrder and by handleSubmitUpdate;   *)
(* its own catch swallows every failure.                                   *)
(***************************************************************************)
\* where('mrn', '==', mrn)
PatientsByMRN(pats, mrn) == {i \in DOMAIN pats : pats[i].mrn = mrn}

\* The patient write of updatePatientMaster: a new record with totalOrders
\* 1 for an empty snapshot, otherwise the first record's count plus one.
PatientUpsert(pats, form, i) ==
  IF i = 0
    THEN Append(pats, [mrn |-> form.patientMRN,
                       firstName |-> form.patientFirstName,
                       lastName |-> form.patientLastName,
                       totalOrders |-> 1])
    ELSE [pats EXCEPT ![i].totalOrders = @ + 1]

\* What runs when updatePatientMaster has returned: submitOrder goes on to
\* the provider query; handleSubmitUpdate reports success and resets the
\* dialog state, then its finally clears loading.
AfterPatientMaster(t) ==
  LET s == Owner(t) IN
  IF frame[t].kind = "submit"
    THEN /\ pc' = [pc EXCEPT ![t] = "providerQuery"]
         /\ calls' = [calls EXCEPT ![t].reads = @ + 1]
         /\ UNCHANGED <<showUpdateForm, duplicateFound, updateFields, loading>>
    ELSE /\ pc' = [pc EXCEPT ![t] = "idle"]
         /\ calls' = [calls EXCEPT ![t].result = "updated"]
         /\ showUpdateForm' = [showUpdateForm EXCEPT ![s] = FALSE]
         /\ duplicateFound' = [duplicateFound EXCEPT ![s] = <<>>]
         /\ updateFields' = [updateFields EXCEPT ![s] = InitialUpdateFields]
         /\ loading' = [loading EXCEPT ![s] = FALSE]

PatientQueryReturn(t) ==
  /\ pc[t] = "patientQuery"
  /\ \E i \in FirstOf(PatientsByMRN(patients, frame[t].form.patientMRN)) :
       frame' = [frame EXCEPT ![t].patientDoc = i]
  /\ pc' = [pc EXCEPT ![t] = "patientWrite"]
  /\ calls' = [calls EXCEPT ![t].writes = @ + 1]
  /\ UNCHANGED <<checks, validation, exportTab, review, store, now, ui>>

PatientQueryFail(t) ==
  /\ pc[t] = "patientQuery"
  /\ AfterPatientMaster(t)
  /\ frame' = [frame EXCEPT ![t] = IF @.kind = "submit" THEN @ ELSE NoFrame]
  /\ UNCHANGED <<checks, validation, exportTab, review, store, now, formData, warnings, errors,
                 showDuplicateDialog, debounce>>

PatientWriteDone(t) ==
  /\ pc[t] = "patientWrite"
  /\ patients' = PatientUpsert(patients, frame[t].form, frame[t].patientDoc)
  /\ AfterPatientMaster(t)
  /\ frame' = [frame EXCEPT ![t] = IF @.kind = "submit" THEN @ ELSE NoFrame]
  /\ UNCHANGED <<checks, validation, exportTab, review, orders, providers, now, formData, warnings, errors,
                 showDuplicateDialog, debounce>>

PatientWriteFail(t) ==
  /\ pc[t] = "patientWrite"
  /\ AfterPatientMaster(t)
  /\ frame' = [frame EXCEPT ![t] = IF @.kind = "submit" THEN @ ELSE NoFrame]
  /\ UNCHANGED <<checks, validation, exportTab, review, store, now, formData, warnings, errors,
                 showDuplicateDialog, debounce>>

(***************************************************************************)
(* The provider upsert of submitOrder.                                     *)
(***************************************************************************)
\* The provider write of submitOrder.  On an empty snapshot a full record
\* is added.  Otherwise the code calls addDoc again, with orderCount:
\* increment(1) alone: a new document whose only field is orderCount = 1
\* (the increment of an absent field is its operand).
ProviderUpsert(provs, form, empty) ==
  IF empty
    THEN Append(provs, [name |-> form.referringProvider,
                        npi |-> form.providerNPI,
                        orderCount |-> 1])
    ELSE Append(provs, [name |-> Undefined,
                        npi |-> Undefined,
                        orderCount |-> 1])

ProviderQueryReturn(t) ==
  /\ pc[t] = "providerQuery"
  /\ frame' = [frame EXCEPT ![t].providerEmpty =
                 (ProvidersByNPI(providers, frame[t].form.providerNPI) = {})]
  /\ pc' = [pc EXCEPT ![t] = "providerWrite"]
  /\ calls' = [calls EXCEPT ![t].writes = @ + 1]
  /\ UNCHANGED <<checks, validation, exportTab, review, store, now, ui>>

ProviderQueryFail(t) ==
  /\ pc[t] = "providerQuery"
  /\ SubmitOrderCatch(t)
  /\ UNCHANGED <<checks, validation, exportTab, review, store, now, formData, warnings, errors, duplicateFound,
                 showDuplicateDialog, showUpdateForm, updateFields, debounce>>

\* The provider write resolves: submitOrder reports success.
ProviderWriteDone(t) ==
  LET s == Owner(t) IN
  /\ pc[t] = "providerWrite"
  /\ providers' = ProviderUpsert(providers, frame[t].form, frame[t].providerEmpty)
  /\ loading' = [loading EXCEPT ![s] = FALSE]
  /\ pc' = [pc EXCEPT ![t] = "idle"]
  /\ frame' = [frame EXCEPT ![t] = NoFrame]
  /\ calls' = [calls EXCEPT ![t].result = "saved"]
  /\ UNCHANGED <<checks, validation, exportTab, review, orders, patients, now, formData, warnings, errors,
                 duplicateFound, showDuplicateDialog, showUpdateForm, updateFields,
                 debounce>>

ProviderWriteFail(t) ==
  /\ pc[t] = "providerWrite"
  /\ SubmitOrderCatch(t)
  /\ UNCHANGED <<checks, validation, exportTab, review, store, now, formData, warnings, errors, duplicateFound,
                 showDuplicateDialog, showUpdateForm, updateFields, debounce>>

(***************************************************************************)
(* The duplicate dialog and the versioned update.                          *)
(***************************************************************************)
\* "Yes, Update Existing Record" of the duplicate dialog.
HandleUpdateExisting(s) ==
  /\ showDuplicateDialog[s]
  /\ duplicateFound[s] # <<>>
  /\ showUpdateForm' = [showUpdateForm EXCEPT ![s] = TRUE]
  /\ showDuplicateDialog' = [showDuplicateDialog EXCEPT ![s] = FALSE]
  /\ LET existingData == duplicateFound[s][1].data IN
     updateFields' = [updateFields EXCEPT ![s] =
       [additionalDiagnoses |-> JoinComma(existingData.additionalDiagnoses),
        medicationHistory |-> JoinComma(existingData.medicationHistory),
        patientRecords |-> existingData.patientRecords]]
  /\ UNCHANGED <<checks, validation, exportTab, review, store, now, formData, warnings, loading, errors,
                 duplicateFound, debounce, pc, frame>>
  /\ calls' = Forgotten(s)

\* "Cancel" of the duplicate dialog (the user declines the update) or of
\* the update form.  It is recorded as a run of its own unless a run of
\* handleSubmit is waiting for its query.
HandleCancelUpdate(s) ==
  /\ duplicateFound[s] # <<>>
  /\ \/ showDuplicateDialog[s]
     \/ showUpdateForm[s] /\ ~loading[s]
  /\ showDuplicateDialog' = [showDuplicateDialog EXCEPT ![s] = FALSE]
  /\ showUpdateForm' = [showUpdateForm EXCEPT ![s] = FALSE]
  /\ duplicateFound' = [duplicateFound EXCEPT ![s] = <<>>]
  /\ updateFields' = [updateFields EXCEPT ![s] = InitialUpdateFields]
  /\ UNCHANGED <<checks, validation, exportTab, review, store, now, formData, warnings, loading, errors,
                 debounce, pc, frame>>
  /\ calls' = IF pc[RunOf(s)] = "idle"
                THEN [calls EXCEPT ![RunOf(s)] =
                        Ended("handleCancelUpdate",
                              IF showDuplicateDialog[s] THEN "declined" ELSE "cancelled")]
                ELSE calls

\* A change event of one of the three inputs of the update form:
\* setUpdateFields({...updateFields, [name]: e.target.value}).
SetUpdateField(fields, name, value) == [fields EXCEPT ![name] = value]

RECURSIVE SetUpdateFields(_, _, _)
SetUpdateFields(fields, typed, names) ==
  IF names = {} THEN fields
  ELSE LET n == CHOOSE x \in names : TRUE
       IN  SetUpdateFields(SetUpdateField(fields, n, typed[n]), typed, names \ {n})

\* The change events of filling in the three inputs of the update form.
TypeUpdate(s, typed) ==
  /\ showUpdateForm[s]
  /\ duplicateFound[s] # <<>>
  /\ updateFields' = [updateFields EXCEPT ![s] = SetUpdateFields(@, typed, UpdateFieldNames)]
  /\ UNCHANGED <<checks, validation, exportTab, review, store, now, formData, warnings, loading, errors,
                 duplicateFound, showDuplicateDialog, showUpdateForm, debounce,
                 pc, frame>>
  /\ calls' = Forgotten(s)

\* The mutant of UpdatedOrder: the update also restamps the order.
UpdatedOrderRestamped(document, f, ts) ==
  [document EXCEPT
     !.additionalDiagnoses = ParseList(f.upd.additionalDiagnoses),
     !.medicationHistory = ParseList(f.upd.medicationHistory),
     !.patientRecords = f.upd.patientRecords,
     !.carePlan = f.plan,
     !.lastUpdated = ts,
     !.timestamp = ts,
     !.history = f.dup[1].data.history \o f.entry]

\* The document updateDoc of handleSubmitUpdate leaves: the three content
\* fields as typed, the new plan, and the history that duplicateFound holds
\* followed by the new entry.
UpdatedOrder(document, f, ts) ==
  [document EXCEPT
     !.additionalDiagnoses = ParseList(f.upd.additionalDiagnoses),
     !.medicationHistory = ParseList(f.upd.medicationHistory),
     !.patientRecords = f.upd.patientRecords,
     !.carePlan = f.plan,
     !.lastUpdated = ts,
     !.history = f.dup[1].data.history \o f.entry]

\* catch and finally of handleSubmitUpdate.
SubmitUpdateCatch(t) ==
  LET s == Owner(t) IN
  /\ loading' = [loading EXCEPT ![s] = FALSE]
  /\ pc' = [pc EXCEPT ![t] = "idle"]
  /\ frame' = [frame EXCEPT ![t] = NoFrame]
  /\ calls' = [calls EXCEPT ![t].result = "failed"]

\* handleSubmitUpdate storing the history entry before it asks for the plan.
HandleSubmitUpdateHistoryFirst(t) ==
  LET s == Owner(t)
      entry == <<HistoryEntry(duplicateFound[s][1].data, now)>>
  IN
  /\ pc[t] = "idle"
  /\ showUpdateForm[s]
  /\ duplicateFound[s] # <<>>
  /\ ~loading[s]
  /\ Len(duplicateFound[s][1].data.history) < MaxHistory
  /\ loading' = [loading EXCEPT ![s] = TRUE]
  /\ frame' = [frame EXCEPT ![t] =
                 [NoFrame EXCEPT !.kind = "update",
                                 !.form = formData[s],
                                 !.dup = duplicateFound[s],
                                 !.upd = updateFields[s],
                                 !.entry = entry]]
  /\ orders' = [orders EXCEPT ![duplicateFound[s][1].id].history =
                   duplicateFound[s][1].data.history \o entry]
  /\ pc' = [pc EXCEPT ![t] = "updGenerate"]
  /\ calls' = [calls EXCEPT ![t] = [Started("handleSubmitUpdate") EXCEPT !.generate = 1]]
  /\ UNCHANGED <<checks, validation, exportTab, review, patients, providers, now, formData, warnings, errors,
                 duplicateFound, showDuplicateDialog, showUpdateForm,
                 updateFields, debounce>>

\* "Update Record" of the update form, up to the first await: the history
\* entry is built from duplicateFound and generateCarePlan is called.
HandleSubmitUpdate(t) ==
  LET s == Owner(t) IN
  /\ pc[t] = "idle"
  /\ showUpdateForm[s]
  /\ duplicateFound[s] # <<>>
  /\ ~loading[s]
  /\ Len(duplicateFound[s][1].data.history) < MaxHistory
  /\ loading' = [loading EXCEPT ![s] = TRUE]
  /\ frame' = [frame EXCEPT ![t] =
                 [NoFrame EXCEPT !.kind = "update",
                                 !.form = formData[s],
                                 !.dup = duplicateFound[s],
                                 !.upd = updateFields[s],
                                 !.entry = <<HistoryEntry(duplicateFound[s][1].data, now)>>]]
  /\ pc' = [pc EXCEPT ![t] = "updGenerate"]
  /\ calls' = [calls EXCEPT ![t] = [Started("handleSubmitUpdate") EXCEPT !.generate = 1]]
  /\ UNCHANGED <<checks, validation, exportTab, review, store, now, formData, warnings, errors, duplicateFound,
                 showDuplicateDialog, showUpdateForm, updateFields, debounce>>

\* generateCarePlan of handleSubmitUpdate settles.
UpdGenerateReturn(t, response) ==
  LET s == Owner(t) IN
  /\ pc[t] = "updGenerate"
  /\ IF generateCarePlanReturns(response)
       THEN /\ frame' = [frame EXCEPT ![t].plan = response.carePlan]
            /\ pc' = [pc EXCEPT ![t] = "updWrite"]
            /\ calls' = [calls EXCEPT ![t].writes = @ + 1]
            /\ UNCHANGED loading
       ELSE SubmitUpdateCatch(t)
  /\ UNCHANGED <<checks, validation, exportTab, review, store, now, formData, warnings, errors, duplicateFound,
                 showDuplicateDialog, showUpdateForm, updateFields, debounce>>

\* updateDoc of the order resolves; updatePatientMaster sends its query.
UpdWriteDone(t) ==
  /\ pc[t] = "updWrite"
  /\ orders' = [orders EXCEPT ![frame[t].dup[1].id] = UpdatedOrder(@, frame[t], now)]
  /\ now' = now + 1
  /\ pc' = [pc EXCEPT ![t] = "patientQuery"]
  /\ calls' = [calls EXCEPT ![t].reads = @ + 1]
  /\ UNCHANGED <<checks, validation, exportTab, review, patients, providers, ui, frame>>

\* updateDoc of the order throws.
UpdWriteFail(t) ==
  /\ pc[t] = "updWrite"
  /\ SubmitUpdateCatch(t)
  /\ UNCHANGED <<checks, validation, exportTab, review, store, now, formData, warnings, errors, duplicateFound,
                 showDuplicateDialog, showUpdateForm, updateFields, debounce>>

(***************************************************************************)
(* PharmacistReview.tsx: the review tab.                                   *)
(***************************************************************************)
MaxFeedback == 2

MaxClock == 4

Pat == <<"P", "a", "t">>

OldText == <<"o", "l", "d">>

NewText == <<"n", "e", "w">>

Why == <<"w", "h", "y">>

ManualCorrection == <<"Manual correction">>

\* What Date.now() and new Date() read in the reviewer's browser: the model
\* has the reviewer add every item at one instant.
ReviewDate == 1

\* What the reviewer has put in the form of one feedback item (newFeedback):
\* an approval, a correction, and an item whose section was not chosen.
NewFeedbackInputs ==
  {[sectionName |-> "GOALS", feedbackType |-> "approval", originalText |-> <<>>,
    correctedText |-> <<>>, comment |-> <<>>, approved |-> TRUE],
   [sectionName |-> "GOALS", feedbackType |-> "correction", originalText |-> OldText,
    correctedText |-> NewText, comment |-> <<>>, approved |-> FALSE],
   [sectionName |-> "", feedbackType |-> "suggestion", originalText |-> <<>>,
    correctedText |-> <<>>, comment |-> Why, approved |-> FALSE]}

\* text || undefined
OrUndefined(text) == IF text = <<>> THEN Undefined ELSE text

\* feedbackItem of handleAddFeedback.
FeedbackItem(newFeedback, name, ts) ==
  [feedbackId |-> <<"feedback_", ts>>,
   timestamp |-> ts,
   pharmacistName |-> name,
   feedbackType |-> newFeedback.feedbackType,
   sectionName |-> newFeedback.sectionName,
   originalText |-> OrUndefined(newFeedback.originalText),
   correctedText |-> OrUndefined(newFeedback.correctedText),
   comment |-> OrUndefined(newFeedback.comment),
   approved |-> newFeedback.approved]

\* The description of one change: the template and what fills it.
Change(f) ==
  IF f.correctedText # Undefined
    THEN [template |-> "Updated S: C", sectionName |-> f.sectionName,
          feedbackType |-> "",
          comment |-> IF f.comment # Undefined THEN f.comment ELSE ManualCorrection]
    ELSE IF f.comment # Undefined
      THEN [template |-> "C", sectionName |-> "", feedbackType |-> "",
            comment |-> f.comment]
      ELSE [template |-> "T on S", sectionName |-> f.sectionName,
            feedbackType |-> f.feedbackType, comment |-> <<>>]

\* One entry of correctionHistory, synthesized from one feedback item.
CorrectionEntry(f) ==
  [timestamp |-> f.timestamp,
   feedbackId |-> f.feedbackId,
   pharmacistName |-> f.pharmacistName,
   sectionName |-> f.sectionName,
   change |-> Change(f),
   before |-> f.originalText,
   after |-> f.correctedText]

CorrectionEntries(fs) == [k \in DOMAIN fs |-> CorrectionEntry(fs[k])]

\* The mutant of AggregateStatus: one approved item is enough.
AggregateStatusSome(fs) ==
  IF \E k \in DOMAIN fs : fs[k].approved THEN "approved" ELSE "corrections_pending"

\* allApproved ? 'approved' : 'corrections_pending'
AggregateStatus(fs) ==
  IF \A k \in DOMAIN fs : fs[k].approved THEN "approved" ELSE "corrections_pending"

\* query(collection(db, 'orders'), where('approvalStatus', '!=', 'approved')),
\* each document with its id.  A document that has no approvalStatus is
\* listed: the tab shows it as 'Pending'.
PendingOrders(ords) ==
  SelectSeq([i \in DOMAIN ords |-> [id |-> i, data |-> ords[i]]],
            LAMBDA o : o.data.approvalStatus # "approved")

\* The tab is opened: the effect calls fetchPendingOrders, which sets
\* loading and sends its query.
MountReview ==
  /\ reviewPc = "unmounted"
  /\ reviewLoading' = TRUE
  /\ reviewPc' = "fetch"
  /\ UNCHANGED <<checks, validation, exportTab, store, now, ui, pc, frame, calls, reviewOrders, selectedOrder,
                 feedback, pharmacistName, regenerating, improvedCarePlan,
                 showImprovedPlan, reviewFrame>>

\* The query of fetchPendingOrders, or of the refresh after a write, resolves.
RefreshReturn ==
  /\ reviewPc \in {"fetch", "refresh"}
  /\ reviewOrders' = PendingOrders(orders)
  /\ reviewLoading' = FALSE
  /\ reviewPc' = "idle"
  /\ UNCHANGED <<checks, validation, exportTab, store, now, ui, pc, frame, calls, selectedOrder, feedback,
                 pharmacistName, regenerating, improvedCarePlan,
                 showImprovedPlan, reviewFrame>>

\* The query throws: the catch logs (and, after a write, alerts), the
\* finally clears loading; the list keeps the copies it had.
RefreshFail ==
  /\ reviewPc \in {"fetch", "refresh"}
  /\ reviewLoading' = FALSE
  /\ reviewPc' = "idle"
  /\ UNCHANGED <<checks, validation, exportTab, store, now, ui, pc, frame, calls, reviewOrders, selectedOrder,
                 feedback, pharmacistName, regenerating, improvedCarePlan,
                 showImprovedPlan, reviewFrame>>

\* onClick of a card of the list, which is hidden while loading.
SelectOrder(k) ==
  /\ reviewPc # "unmounted"
  /\ ~reviewLoading
  /\ k \in DOMAIN reviewOrders
  /\ selectedOrder' = <<reviewOrders[k]>>
  /\ UNCHANGED <<checks, validation, exportTab, store, now, ui, pc, frame, calls, reviewOrders, feedback,
                 pharmacistName, reviewLoading, regenerating, improvedCarePlan,
                 showImprovedPlan, reviewPc, reviewFrame>>

\* onChange of the pharmacist name input.
SetPharmacistName(name) ==
  /\ reviewPc # "unmounted"
  /\ pharmacistName' = name
  /\ UNCHANGED <<checks, validation, exportTab, store, now, ui, pc, frame, calls, reviewOrders, selectedOrder,
                 feedback, reviewLoading, regenerating, improvedCarePlan,
                 showImprovedPlan, reviewPc, reviewFrame>>

\* handleAddFeedback, from the panel of the selected order.
HandleAddFeedback(newFeedback) ==
  /\ selectedOrder # <<>>
  /\ Len(feedback) < MaxFeedback
  /\ newFeedback.sectionName # ""
  /\ pharmacistName # <<>>
  /\ feedback' = Append(feedback, FeedbackItem(newFeedback, pharmacistName, ReviewDate))
  /\ UNCHANGED <<checks, validation, exportTab, store, now, ui, pc, frame, calls, reviewOrders, selectedOrder,
                 pharmacistName, reviewLoading, regenerating, improvedCarePlan,
                 showImprovedPlan, reviewPc, reviewFrame>>

\* handleRemoveFeedback(index), index counted from 0.
HandleRemoveFeedback(index) ==
  /\ selectedOrder # <<>>
  /\ index + 1 \in DOMAIN feedback
  /\ feedback' = SubSeq(feedback, 1, index) \o SubSeq(feedback, index + 2, Len(feedback))
  /\ UNCHANGED <<checks, validation, exportTab, store, now, ui, pc, frame, calls, reviewOrders, selectedOrder,
                 pharmacistName, reviewLoading, regenerating, improvedCarePlan,
                 showImprovedPlan, reviewPc, reviewFrame>>

\* onClick of Cancel in the panel of the selected order.
CancelReview ==
  /\ selectedOrder # <<>>
  /\ selectedOrder' = <<>>
  /\ feedback' = <<>>
  /\ improvedCarePlan' = NoPlan
  /\ showImprovedPlan' = FALSE
  /\ UNCHANGED <<checks, validation, exportTab, store, now, ui, pc, frame, calls, reviewOrders, pharmacistName,
                 reviewLoading, regenerating, reviewPc, reviewFrame>>

\* onClick of Hide, or of Discard, in the panel of the improved plan.
HideImprovedPlan ==
  /\ showImprovedPlan
  /\ improvedCarePlan # NoPlan
  /\ showImprovedPlan' = FALSE
  /\ improvedCarePlan' = NoPlan
  /\ UNCHANGED <<checks, validation, exportTab, store, now, ui, pc, frame, calls, reviewOrders, selectedOrder,
                 feedback, pharmacistName, reviewLoading, regenerating, reviewPc,
                 reviewFrame>>

\* The fields handleSubmitFeedback passes to updateDoc, from what its
\* closure holds.
SubmitFeedbackFields(order, fs) ==
  [id |-> order.id,
   approvalStatus |-> AggregateStatus(fs),
   carePlan |-> NoPlan,
   pharmacistFeedback |-> fs,
   correctionHistory |-> order.data.correctionHistory \o CorrectionEntries(fs)]

\* handleSubmitFeedback up to its updateDoc.  The button is in the panel of
\* the selected order and is disabled while loading or regenerating or
\* without feedback.
HandleSubmitFeedback ==
  /\ selectedOrder # <<>>
  /\ ~reviewLoading
  /\ ~regenerating
  /\ feedback # <<>>
  /\ IF pharmacistName = <<>>
       THEN UNCHANGED <<reviewLoading, reviewPc, reviewFrame>>
       ELSE /\ now < MaxClock
            /\ reviewLoading' = TRUE
            /\ reviewPc' = "submitWrite"
            /\ reviewFrame' = SubmitFeedbackFields(selectedOrder[1], feedback)
  /\ UNCHANGED <<checks, validation, exportTab, store, now, ui, pc, frame, calls, reviewOrders, selectedOrder,
                 feedback, pharmacistName, regenerating, improvedCarePlan,
                 showImprovedPlan>>

\* updateDoc of handleSubmitFeedback resolves: the form of the review is
\* cleared and the refresh of the list is sent.
SubmitFeedbackWriteDone ==
  /\ reviewPc = "submitWrite"
  /\ orders' = [orders EXCEPT ![reviewFrame.id] =
                  [@ EXCEPT !.approvalStatus = reviewFrame.approvalStatus,
                            !.pharmacistFeedback = reviewFrame.pharmacistFeedback,
                            !.correctionHistory = reviewFrame.correctionHistory,
                            !.lastUpdated = now]]
  /\ now' = now + 1
  /\ feedback' = <<>>
  /\ selectedOrder' = <<>>
  /\ pharmacistName' = <<>>
  /\ reviewPc' = "refresh"
  /\ reviewFrame' = NoReviewFrame
  /\ UNCHANGED <<checks, validation, exportTab, patients, providers, ui, pc, frame, calls, reviewOrders,
                 reviewLoading, regenerating, improvedCarePlan, showImprovedPlan>>

\* updateDoc of handleSubmitFeedback or of handleAcceptImprovedPlan throws.
ReviewWriteFail ==
  /\ reviewPc \in {"submitWrite", "acceptWrite"}
  /\ reviewLoading' = FALSE
  /\ reviewPc' = "idle"
  /\ reviewFrame' = NoReviewFrame
  /\ UNCHANGED <<checks, validation, exportTab, store, now, ui, pc, frame, calls, reviewOrders, selectedOrder,
                 feedback, pharmacistName, regenerating, improvedCarePlan,
                 showImprovedPlan>>

\* handleRegenerateCarePlan up to the request of
\* regenerateCarePlanWithFeedback; its button is disabled like Submit.
HandleRegenerateCarePlan ==
  /\ selectedOrder # <<>>
  /\ ~reviewLoading
  /\ ~regenerating
  /\ feedback # <<>>
  /\ regenerating' = TRUE
  /\ UNCHANGED <<checks, validation, exportTab, store, now, ui, pc, frame, calls, reviewOrders, selectedOrder,
                 feedback, pharmacistName, reviewLoading, improvedCarePlan,
                 showImprovedPlan, reviewPc, reviewFrame>>

\* TRUE when regenerateCarePlanWithFeedback returns; it throws otherwise.
regenerateCarePlanReturns(response) ==
  response.kind = "ok" /\ response.carePlan # ""

\* The mutant of RegenerateReturn: the candidate is also saved on the
\* selected order.
RegenerateReturnSaves(response) ==
  /\ regenerating
  /\ regenerating' = FALSE
  /\ IF regenerateCarePlanReturns(response)
       THEN /\ improvedCarePlan' = response.carePlan
            /\ showImprovedPlan' = TRUE
            /\ orders' = IF selectedOrder = <<>>
                           THEN orders
                           ELSE [orders EXCEPT ![selectedOrder[1].id].carePlan =
                                                 response.carePlan]
       ELSE UNCHANGED <<orders, improvedCarePlan, showImprovedPlan>>
  /\ UNCHANGED <<checks, validation, exportTab, patients, providers, now, ui, pc, frame, calls, reviewOrders,
                 selectedOrder, feedback, pharmacistName, reviewLoading, reviewPc,
                 reviewFrame>>

\* The request of regenerateCarePlanWithFeedback comes back: the candidate
\* is kept and shown, or the catch alerts; the finally clears regenerating.
RegenerateReturn(response) ==
  /\ regenerating
  /\ regenerating' = FALSE
  /\ IF regenerateCarePlanReturns(response)
       THEN /\ improvedCarePlan' = response.carePlan
            /\ showImprovedPlan' = TRUE
       ELSE UNCHANGED <<improvedCarePlan, showImprovedPlan>>
  /\ UNCHANGED <<checks, validation, exportTab, store, now, ui, pc, frame, calls, reviewOrders, selectedOrder,
                 feedback, pharmacistName, reviewLoading, reviewPc, reviewFrame>>

\* handleAcceptImprovedPlan up to its updateDoc.  The button is in the panel
\* of the improved plan and is disabled while loading.
HandleAcceptImprovedPlan ==
  /\ showImprovedPlan
  /\ improvedCarePlan # NoPlan
  /\ ~reviewLoading
  /\ IF selectedOrder = <<>>
       THEN UNCHANGED <<reviewLoading, reviewPc, reviewFrame>>
       ELSE /\ now < MaxClock
            /\ reviewLoading' = TRUE
            /\ reviewPc' = "acceptWrite"
            /\ reviewFrame' = [id |-> selectedOrder[1].id,
                               approvalStatus |-> "approved",
                               carePlan |-> improvedCarePlan,
                               pharmacistFeedback |-> feedback,
                               correctionHistory |-> <<>>]
  /\ UNCHANGED <<checks, validation, exportTab, store, now, ui, pc, frame, calls, reviewOrders, selectedOrder,
                 feedback, pharmacistName, regenerating, improvedCarePlan,
                 showImprovedPlan>>

\* updateDoc of handleAcceptImprovedPlan resolves: the candidate and the
\* form of the review are cleared and the refresh of the list is sent.
AcceptWriteDone ==
  /\ reviewPc = "acceptWrite"
  /\ orders' = [orders EXCEPT ![reviewFrame.id] =
                  [@ EXCEPT !.carePlan = reviewFrame.carePlan,
                            !.pharmacistFeedback = reviewFrame.pharmacistFeedback,
                            !.approvalStatus = reviewFrame.approvalStatus,
                            !.lastUpdated = now]]
  /\ now' = now + 1
  /\ improvedCarePlan' = NoPlan
  /\ showImprovedPlan' = FALSE
  /\ feedback' = <<>>
  /\ selectedOrder' = <<>>
  /\ pharmacistName' = <<>>
  /\ reviewPc' = "refresh"
  /\ reviewFrame' = NoReviewFrame
  /\ UNCHANGED <<checks, validation, exportTab, patients, providers, ui, pc, frame, calls, reviewOrders,
                 reviewLoading, regenerating>>

(***************************************************************************)
(* ExportData (WarningsDisplay.tsx): the export tab.                       *)
(***************************************************************************)
\* The clock in the store and in the browser, as far as the date filters can
\* tell instants apart: each day has the instants 00:00:00, one during the
\* day, 23:59:59.000 and one within the last second of the day.  toDate,
\* toISOString and new Date keep milliseconds, so they keep these instants.
TicksPerDay == 4

StartOfDay == 0

DuringDay == 1

LastSecond == 2

AfterLastSecond == 3

MaxDay == 1

\* new Date(date + 'T' + time of day), in the time zone of the timestamps.
DateTime(date, tick) == date * TicksPerDay + tick

\* String.prototype.includes
Includes(text, sub) ==
  \E k \in 0..(Len(text) - Len(sub)) : SubSeq(text, k + 1, k + Len(sub)) = sub

\* The three filters of handleExport; a date is <<>> when the input is empty.
PassesStart(order, start) ==
  start # <<>> => order.timestamp >= DateTime(start[1], StartOfDay)

PassesEnd(order, end) ==
  end # <<>> => order.timestamp <= DateTime(end[1], LastSecond)

PassesMedication(order, med) ==
  med # <<>> /\ trim(med) # <<>> =>
    Includes(toLowerCase(order.medicationName), toLowerCase(med))

\* orders of handleExport after its filters: the documents with their ids.
FilteredOrders(ords, start, end, med) ==
  SelectSeq([i \in DOMAIN ords |-> [id |-> i, data |-> ords[i]]],
            LAMBDA o : /\ PassesStart(o.data, start)
                       /\ PassesEnd(o.data, end)
                       /\ PassesMedication(o.data, med))

\* The argument of setStats.
ExportStats(matching) ==
  [orders |-> Len(matching),
   patients |-> Cardinality({matching[k].data.patientMRN : k \in DOMAIN matching}),
   providers |-> Cardinality({matching[k].data.providerNPI : k \in DOMAIN matching}),
   medications |-> Cardinality({matching[k].data.medicationName : k \in DOMAIN matching})]

\* What the user types into the medication filter.
MedFilters == {<<>>, <<" ">>, <<"i", "v">>, <<"A", "l", "b">>}

\* onChange of the three filter inputs.
SetStartDate(date) ==
  /\ startDate' = date
  /\ UNCHANGED <<checks, validation, store, now, ui, pc, frame, calls, review, endDate, medFilter,
                 stats, exported>>

SetEndDate(date) ==
  /\ endDate' = date
  /\ UNCHANGED <<checks, validation, store, now, ui, pc, frame, calls, review, startDate, medFilter,
                 stats, exported>>

SetMedFilter(text) ==
  /\ medFilter' = text
  /\ UNCHANGED <<checks, validation, store, now, ui, pc, frame, calls, review, startDate, endDate,
                 stats, exported>>

\* handleExport(format) with getDocs resolving: the orders are filtered;
\* with none left it alerts and returns, else it sets stats and hands the
\* orders to exportCSV or exportJSON.
HandleExport(format) ==
  LET matching == FilteredOrders(orders, startDate, endDate, medFilter)
      ran == [NotExported EXCEPT !.startDate = startDate, !.endDate = endDate,
                                 !.medFilter = medFilter]
  IN
  /\ IF matching = <<>>
       THEN /\ exported' = [ran EXCEPT !.kind = "alert"]
            /\ UNCHANGED stats
       ELSE /\ stats' = <<ExportStats(matching)>>
            /\ exported' = [ran EXCEPT !.kind = format,
                                       !.ids = [k \in DOMAIN matching |-> matching[k].id]]
  /\ UNCHANGED <<checks, validation, store, now, ui, pc, frame, calls, review, startDate, endDate,
                 medFilter>>

\* getDocs of handleExport throws: the catch alerts.
HandleExportFail ==
  /\ exported' = [NotExported EXCEPT !.kind = "error", !.startDate = startDate,
                                     !.endDate = endDate, !.medFilter = medFilter]
  /\ UNCHANGED <<checks, validation, store, now, ui, pc, frame, calls, review, startDate, endDate,
                 medFilter, stats>>

(***************************************************************************)
(* The specifications.                                                     *)
(***************************************************************************)
\* One session that types Ann Lee's order or the same four keys under
\* other names; the service answers with one plan or fails, and every call
\* to the store may fail.
Next ==
  \/ \E typed \in {FormA, FormC} : TypeForm("s1", typed)
  \/ CheckDuplicates("s1")
  \/ CheckDuplicatesFail("s1")
  \/ HandleSubmit("t1")
  \/ DupQueryReturn("t1", MaxOrders)
  \/ DupQueryFail("t1")
  \/ \E response \in ResponsesWith({"plan1"}) : GenerateReturn("t1", response)
  \/ AddOrderDone("t1")
  \/ AddOrderFail("t1")
  \/ PatientQueryReturn("t1")
  \/ PatientQueryFail("t1")
  \/ PatientWriteDone("t1")
  \/ PatientWriteFail("t1")
  \/ ProviderQueryReturn("t1")
  \/ ProviderQueryFail("t1")
  \/ ProviderWriteDone("t1")
  \/ ProviderWriteFail("t1")
  \/ HandleUpdateExisting("s1")
  \/ HandleCancelUpdate("s1")
  \/ TypeUpdate("s1", UpdateA)
  \/ HandleSubmitUpdate("t1")
  \/ \E response \in ResponsesWith({"plan1"}) : UpdGenerateReturn("t1", response)
  \/ UpdWriteDone("t1")
  \/ UpdWriteFail("t1")

Spec == Init /\ [][Next]_vars

\* Two sessions that both enter Ann Lee's order; every call is answered, the
\* request for the plan of a new order with one plan, that of an update
\* with either.
NextTwo ==
  \/ \E s \in Sessions : TypeForm(s, FormA)
  \/ \E s \in Sessions : HandleSubmit(RunOf(s))
  \/ \E t \in Tasks : DupQueryReturn(t, MaxOrdersTwo)
  \/ \E t \in Tasks, response \in OkResponsesWith({"plan1"}) : GenerateReturn(t, response)
  \/ \E t \in Tasks : AddOrderDone(t)
  \/ \E t \in Tasks : PatientQueryReturn(t)
  \/ \E t \in Tasks : PatientWriteDone(t)
  \/ \E t \in Tasks : ProviderQueryReturn(t)
  \/ \E t \in Tasks : ProviderWriteDone(t)
  \/ \E s \in Sessions : HandleUpdateExisting(s)
  \/ \E s \in Sessions : HandleCancelUpdate(s)
  \/ \E s \in Sessions : TypeUpdate(s, UpdateA)
  \/ \E s \in Sessions : HandleSubmitUpdate(RunOf(s))
  \/ \E t \in Tasks, response \in OkResponses : UpdGenerateReturn(t, response)
  \/ \E t \in Tasks : UpdWriteDone(t)

SpecTwo == Init /\ [][NextTwo]_vars

Answer(t) ==
  \/ DupQueryReturn(t, MaxOrders)
  \/ \E response \in OkResponses : GenerateReturn(t, response)
  \/ AddOrderDone(t)
  \/ PatientQueryReturn(t)
  \/ PatientWriteDone(t)
  \/ ProviderQueryReturn(t)
  \/ ProviderWriteDone(t)
  \/ \E response \in OkResponses : UpdGenerateReturn(t, response)
  \/ UpdWriteDone(t)

\* One session that enters Ann Lee's order again and again.  Every call is
\* answered, and answered in the end: promises settle, the user need not act.
NextAnswered ==
  \/ TypeForm("s1", FormA)
  \/ HandleSubmit("t1")
  \/ HandleUpdateExisting("s1")
  \/ HandleCancelUpdate("s1")
  \/ TypeUpdate("s1", UpdateA)
  \/ HandleSubmitUpdate("t1")
  \/ Answer("t1")

SpecAnswered == Init /\ [][NextAnswered]_vars /\ WF_vars(Answer("t1"))

\* One session that enters two orders of Ann Lee with the same provider;
\* a duplicate is declined.  Every call is answered.
NextProviders ==
  \/ \E typed \in {FormA, FormB} : TypeForm("s1", typed)
  \/ HandleSubmit("t1")
  \/ DupQueryReturn("t1", MaxOrders)
  \/ \E response \in OkResponses : GenerateReturn("t1", response)
  \/ AddOrderDone("t1")
  \/ PatientQueryReturn("t1")
  \/ PatientWriteDone("t1")
  \/ ProviderQueryReturn("t1")
  \/ ProviderWriteDone("t1")
  \/ HandleCancelUpdate("s1")

SpecProviders == Init /\ [][NextProviders]_vars

\* One session at its form while the store cannot be reached: what
\* handleSubmit does with every kind of form.
NextForm ==
  \/ \E typed \in FormInputs : TypeForm("s1", typed)
  \/ HandleReset("s1")
  \/ HandleSubmit("t1")
  \/ DupQueryFail("t1")

SpecForm == Init /\ [][NextForm]_vars

\* One session that enters orders of Ann Lee and of Bob Lee under the same
\* MRN, and of Dr A under two NPIs; the duplicate check runs when its timer
\* fires, or fails; a duplicate is declined.  Every other call is answered.
NextNames ==
  \/ \E typed \in {FormA, FormB, FormD, FormE} : TypeForm("s1", typed)
  \/ CheckDuplicates("s1")
  \/ CheckDuplicatesFail("s1")
  \/ HandleSubmit("t1")
  \/ DupQueryReturn("t1", MaxOrders)
  \/ \E response \in OkResponsesWith({"plan1"}) : GenerateReturn("t1", response)
  \/ AddOrderDone("t1")
  \/ PatientQueryReturn("t1")
  \/ PatientWriteDone("t1")
  \/ ProviderQueryReturn("t1")
  \/ ProviderWriteDone("t1")
  \/ HandleCancelUpdate("s1")

SpecNames == Init /\ [][NextNames]_vars

\* One session enters Ann Lee's order, up to the write of the order, while
\* the review tab is open; the service answers the regeneration with a plan or fails,
\* and every call of the review tab to the store may fail.
NextReview ==
  \/ TypeForm("s1", FormA)
  \/ HandleSubmit("t1")
  \/ DupQueryReturn("t1", MaxOrdersTwo)
  \/ \E response \in OkResponsesWith({"plan1"}) : GenerateReturn("t1", response)
  \/ AddOrderDone("t1")
  \/ MountReview
  \/ RefreshReturn
  \/ RefreshFail
  \/ \E k \in 1..MaxOrdersTwo : SelectOrder(k)
  \/ \E name \in {<<>>, Pat} : SetPharmacistName(name)
  \/ \E newFeedback \in NewFeedbackInputs : HandleAddFeedback(newFeedback)
  \/ \E index \in 0..(MaxFeedback - 1) : HandleRemoveFeedback(index)
  \/ CancelReview
  \/ HideImprovedPlan
  \/ HandleSubmitFeedback
  \/ SubmitFeedbackWriteDone
  \/ ReviewWriteFail
  \/ HandleRegenerateCarePlan
  \/ \E response \in ResponsesWith({"plan2"}) : RegenerateReturn(response)
  \/ HandleAcceptImprovedPlan
  \/ AcceptWriteDone

SpecReview == Init /\ [][NextReview]_vars

\* The review tab with the feedback handlers alone: the reviewer selects
\* Ann Lee's order, adds items and submits them; the write and the refresh
\* may fail.
NextFeedback ==
  \/ TypeForm("s1", FormA)
  \/ HandleSubmit("t1")
  \/ DupQueryReturn("t1", MaxOrdersTwo)
  \/ \E response \in OkResponsesWith({"plan1"}) : GenerateReturn("t1", response)
  \/ AddOrderDone("t1")
  \/ MountReview
  \/ RefreshReturn
  \/ RefreshFail
  \/ \E k \in 1..MaxOrdersTwo : SelectOrder(k)
  \/ \E name \in {<<>>, Pat} : SetPharmacistName(name)
  \/ \E newFeedback \in NewFeedbackInputs : HandleAddFeedback(newFeedback)
  \/ HandleSubmitFeedback
  \/ SubmitFeedbackWriteDone
  \/ ReviewWriteFail

SpecFeedback == Init /\ [][NextFeedback]_vars

\* The review tab with the regeneration and its acceptance alone.
NextAccept ==
  \/ TypeForm("s1", FormA)
  \/ HandleSubmit("t1")
  \/ DupQueryReturn("t1", MaxOrdersTwo)
  \/ \E response \in OkResponsesWith({"plan1"}) : GenerateReturn("t1", response)
  \/ AddOrderDone("t1")
  \/ MountReview
  \/ RefreshReturn
  \/ RefreshFail
  \/ \E k \in 1..MaxOrdersTwo : SelectOrder(k)
  \/ \E name \in {<<>>, Pat} : SetPharmacistName(name)
  \/ \E newFeedback \in NewFeedbackInputs : HandleAddFeedback(newFeedback)
  \/ CancelReview
  \/ HideImprovedPlan
  \/ ReviewWriteFail
  \/ HandleRegenerateCarePlan
  \/ \E response \in ResponsesWith({"plan2"}) : RegenerateReturn(response)
  \/ HandleAcceptImprovedPlan
  \/ AcceptWriteDone

SpecAccept == Init /\ [][NextAccept]_vars

\* One session enters Ann Lee's orders for two medications and updates
\* either of them; nothing fails.
NextUpdate ==
  \/ \E typed \in {FormA, FormB} : TypeForm("s1", typed)
  \/ HandleSubmit("t1")
  \/ DupQueryReturn("t1", MaxOrders)
  \/ \E response \in OkResponsesWith({"plan1"}) : GenerateReturn("t1", response)
  \/ AddOrderDone("t1")
  \/ PatientQueryReturn("t1")
  \/ PatientWriteDone("t1")
  \/ ProviderQueryReturn("t1")
  \/ ProviderWriteDone("t1")
  \/ HandleUpdateExisting("s1")
  \/ HandleCancelUpdate("s1")
  \/ TypeUpdate("s1", UpdateA)
  \/ HandleSubmitUpdate("t1")
  \/ \E response \in OkResponsesWith({"plan2"}) : UpdGenerateReturn("t1", response)
  \/ UpdWriteDone("t1")

SpecUpdate == Init /\ [][NextUpdate]_vars

\* The stores the export is run on: up to two of Ann Lee's orders, for
\* either medication, written in this order at instants of two days.
ExportInstants ==
  {DateTime(0, DuringDay), DateTime(0, AfterLastSecond),
   DateTime(MaxDay, StartOfDay), DateTime(MaxDay, LastSecond)}

ExportOrders ==
  {NewOrder(SetFields(InitialFormData, typed, FormFields), "plan1", ts) :
     typed \in {FormA, FormB}, ts \in ExportInstants}

ExportStores ==
  {<<>>} \cup {<<o>> : o \in ExportOrders}
         \cup {pair \in ExportOrders \X ExportOrders :
                  pair[1].timestamp < pair[2].timestamp}

InitExport ==
  /\ orders \in ExportStores
  /\ patients = <<>>
  /\ providers = <<>>
  /\ now = DateTime(MaxDay + 1, StartOfDay)
  /\ InitTabs
  /\ InitValidation

\* The export tab over a store that does not change: the user sets the
\* filters and exports in either format; the read of the store may fail.
NextExport ==
  \/ \E date \in {<<>>} \cup {<<d>> : d \in 0..MaxDay} : SetStartDate(date)
  \/ \E date \in {<<>>} \cup {<<d>> : d \in 0..MaxDay} : SetEndDate(date)
  \/ \E text \in MedFilters : SetMedFilter(text)
  \/ \E format \in {"csv", "json"} : HandleExport(format)
  \/ HandleExportFail

SpecExport == InitExport /\ [][NextExport]_vars

(***************************************************************************)
(* The versioned update: C1, C2, C3.                                       *)
(***************************************************************************)
IsPrefix(a, b) == Len(a) <= Len(b) /\ SubSeq(b, 1, Len(a)) = a

\* The step in which updateDoc of handleSubmitUpdate takes effect.
UpdateWritten(t) == pc[t] = "updWrite" /\ pc'[t] = "patientQuery"

\* What C1 asks of the step that writes the update of run t.
AppendsOneEntry(t) ==
  LET id == frame[t].dup[1].id
      before == orders[id]
      after == orders'[id]
      last == after.history[Len(after.history)]
  IN  /\ Len(after.history) = Len(before.history) + 1
      /\ IsPrefix(before.history, after.history)
      /\ last.additionalDiagnoses = before.additionalDiagnoses
      /\ last.medicationHistory = before.medicationHistory
      /\ last.patientRecords = before.patientRecords
      /\ last.carePlan = before.carePlan
      /\ after.additionalDiagnoses = ParseList(frame[t].upd.additionalDiagnoses)
      /\ after.medicationHistory = ParseList(frame[t].upd.medicationHistory)
      /\ after.patientRecords = frame[t].upd.patientRecords
      /\ after.carePlan = frame[t].plan
      /\ after.carePlan \in Plans

\* C1: when handleSubmitUpdate succeeds, the stored order's history is its
\* previous history plus exactly one new last entry that holds the values
\* the order had just before the update (additionalDiagnoses,
\* medicationHistory, patientRecords, carePlan), and the order's live
\* fields are the newly entered values and the newly generated plan.
C1_UpdateAppendsPriorValues ==
  [][\A t \in Tasks : UpdateWritten(t) => AppendsOneEntry(t)]_vars

\* C2: whatever the sessions do, updates of two sessions that both read the
\* order before either writes included, the history of every stored order
\* after a step has the history before the step as a prefix.
C2_HistoryIsPrefixMonotone ==
  [][\A i \in DOMAIN orders : IsPrefix(orders[i].history, orders'[i].history)]_vars

\* The step in which generateCarePlan of handleSubmitUpdate throws.
UpdateGenerationFailed(t) == pc[t] = "updGenerate" /\ pc'[t] = "idle"

\* C3: if generateCarePlan throws in handleSubmitUpdate, the run has sent no
\* store write and sends none: the order is as the run read it (content
\* fields, carePlan, history, lastUpdated), and the step leaves orders,
\* patients and providers unchanged.
C3_FailedGenerationWritesNothing ==
  [][\A t \in Tasks :
       UpdateGenerationFailed(t) =>
         /\ calls'[t].result = "failed"
         /\ calls'[t].writes = 0
         /\ orders[frame[t].dup[1].id] = frame[t].dup[1].data
         /\ store' = store]_vars

\* handleSubmitUpdate of session s1 ended in the catch without any write.
C3_Witness ==
  /\ calls["t1"].op = "handleSubmitUpdate"
  /\ calls["t1"].result = "failed"
  /\ calls["t1"].generate = 1
  /\ calls["t1"].writes = 0
  /\ orders # <<>>

(***************************************************************************)
(* New orders: C4 to C8.                                                   *)
(***************************************************************************)
\* The step in which generateCarePlan of submitOrder throws.
SubmitGenerationFailed(t) == pc[t] = "generate" /\ pc'[t] = "idle"

\* C4: every stored order has a non-empty carePlan, and when
\* generateCarePlan throws in submitOrder the run has sent no write and no
\* order, patient or provider record is written.
C4_EveryOrderHasAPlan ==
  /\ [](\A i \in DOMAIN orders : orders[i].carePlan # NoPlan)
  /\ [][\A t \in Tasks :
          SubmitGenerationFailed(t) =>
            /\ calls'[t].result = "failed"
            /\ calls'[t].writes = 0
            /\ store' = store]_vars

\* submitOrder stored an order with the plan the service generated.
C4_Witness ==
  /\ calls["t1"].op = "handleSubmit"
  /\ calls["t1"].result = "saved"
  /\ \E i \in DOMAIN orders : orders[i].carePlan \in Plans

\* A step in which handleSubmit runs up to its first await or its return.
SubmitStep(t) ==
  pc[t] = "idle" /\ calls'[t].op = "handleSubmit" /\ calls'[t] # calls[t]

HasErrorWarning(ws) == \E i \in DOMAIN ws : ws[i].severity = "error"

\* The run t has ended without any call to the AI service or to the store.
EndedWithoutCalls(t) ==
  /\ pc'[t] = "idle"
  /\ calls'[t].generate = 0
  /\ calls'[t].reads = 0
  /\ calls'[t].writes = 0
  /\ store' = store

\* C5: if handleSubmit runs while warnings holds an item of severity
\* 'error', the submission is aborted: no exact-duplicate query is sent and
\* no prompt opened, generateCarePlan is not called, nothing is written.
C5_BlockingWarningsAbortSubmit ==
  [][\A t \in Tasks :
       SubmitStep(t) /\ HasErrorWarning(warnings[Owner(t)]) =>
         /\ calls'[t].result \in {"invalid", "blocked"}
         /\ EndedWithoutCalls(t)
         /\ duplicateFound' = duplicateFound
         /\ showDuplicateDialog' = showDuplicateDialog]_vars

\* A valid form was submitted under a blocking warning.
C5_Witness ==
  /\ calls["t1"].op = "handleSubmit"
  /\ calls["t1"].result = "blocked"
  /\ orders # <<>>

\* Empty, or nothing but white space.
Blank(value) == \A i \in DOMAIN value : value[i] \in Whitespace

\* A required field that is empty, or a name, MRN, diagnosis code or NPI
\* that is malformed.
InvalidField(name, value) ==
  \/ Blank(value)
  \/ name \in {"patientFirstName", "patientLastName"} /\ ~MatchesName(value)
  \/ name = "patientMRN" /\ ~MatchesDigits(value, MRNLength)
  \/ name = "primaryDiagnosis" /\ ~MatchesICD(value)
  \/ name = "providerNPI" /\ ~MatchesDigits(value, NPILength)

InvalidFields(form) == {name \in TextFields : InvalidField(name, form[name])}

\* C6: if on submit a required field is empty or a name, the MRN, the
\* diagnosis code or the NPI is malformed, handleSubmit sets an error for
\* every invalid field and returns without calling generateCarePlan and
\* without any store read or write.
C6_InvalidFormIsRejected ==
  [][\A t \in Tasks :
       SubmitStep(t) /\ InvalidFields(formData[Owner(t)]) # {} =>
         /\ calls'[t].result = "invalid"
         /\ EndedWithoutCalls(t)
         /\ \A name \in InvalidFields(formData[Owner(t)]) :
              /\ name \in DOMAIN errors'[Owner(t)]
              /\ errors'[Owner(t)][name] # NoError]_vars

\* A form with three invalid fields was submitted and all three are marked.
C6_Witness ==
  /\ calls["t1"].op = "handleSubmit"
  /\ calls["t1"].result = "invalid"
  /\ Cardinality(InvalidFields(formData["s1"])) = 3
  /\ DOMAIN errors["s1"] = InvalidFields(formData["s1"])

\* The order the form of a submission duplicates: same MRN, medication
\* name, primary diagnosis and provider NPI.
SameFourFields(document, form) ==
  /\ document.patientMRN = form.patientMRN
  /\ document.medicationName = form.medicationName
  /\ document.primaryDiagnosis = form.primaryDiagnosis
  /\ document.providerNPI = form.providerNPI

\* The step in which the query of checkForExactDuplicate is answered.
DuplicateQueryAnswered(t) ==
  pc[t] = "dupQuery" /\ pc'[t] # "dupQuery" /\ calls'[t].result # "rejected"

\* The step in which handleCancelUpdate runs in the session of t.
CancelStep(t) ==
  /\ duplicateFound[Owner(t)] # <<>>
  /\ duplicateFound'[Owner(t)] = <<>>
  /\ \A u \in Tasks : Owner(u) = Owner(t) => pc'[u] = pc[u]

\* C7: if the store holds an order with the MRN, medication name, primary
\* diagnosis and provider NPI of the submitted form, handleSubmit opens the
\* duplicate prompt on such an order without calling generateCarePlan and
\* without writing; Cancel then clears the prompt state (duplicateFound,
\* both dialogs, updateFields) and leaves the store unchanged.
C7_DuplicatePromptsAndCancelClears ==
  [][\A t \in Tasks :
       /\ DuplicateQueryAnswered(t)
            /\ (\E i \in DOMAIN orders : SameFourFields(orders[i], frame[t].form)) =>
              /\ calls'[t].result = "prompt"
              /\ calls'[t].generate = 0
              /\ calls'[t].writes = 0
              /\ pc'[t] = "idle"
              /\ store' = store
              /\ showDuplicateDialog'[Owner(t)]
              /\ duplicateFound'[Owner(t)] # <<>>
              /\ SameFourFields(duplicateFound'[Owner(t)][1].data, frame[t].form)
              /\ ~loading'[Owner(t)]
       /\ CancelStep(t) =>
              /\ duplicateFound'[Owner(t)] = <<>>
              /\ ~showDuplicateDialog'[Owner(t)]
              /\ ~showUpdateForm'[Owner(t)]
              /\ updateFields'[Owner(t)] = InitialUpdateFields
              /\ store' = store]_vars

\* The prompt was opened for the same four fields typed under other names,
\* and the user chose Cancel.
C7_Witness ==
  /\ calls["t1"] = Ended("handleCancelUpdate", "declined")
  /\ formData["s1"].patientFirstName = Bob
  /\ \E i \in DOMAIN orders :
       SameFourFields(orders[i], formData["s1"]) /\ orders[i].patientFirstName = Ann

\* The user has just declined to update the duplicate, with n orders stored.
Declined(t, n) ==
  calls[t] = Ended("handleCancelUpdate", "declined") /\ Len(orders) = n

\* A new order of the form of session s was added after the first n.
CreatedAfter(s, n) ==
  \E i \in DOMAIN orders :
    /\ i > n
    /\ SameFourFields(orders[i], formData[s])
    /\ orders[i].history = <<>>
    /\ orders[i].timestamp < now

\* C8: when an exact duplicate is found and the user declines to update the
\* existing record, a new order is created, with empty history and the
\* timestamp of its creation.
C8_DeclineCreatesNewOrder ==
  \A t \in Tasks, n \in 0..MaxOrders :
    Declined(t, n) ~> CreatedAfter(Owner(t), n)

(***************************************************************************)
(* The master records: C9, C10.                                            *)
(***************************************************************************)
\* The step in which the provider write of submitOrder takes effect.
ProviderWritten(t) == pc[t] = "providerWrite" /\ pc'[t] = "idle" /\ calls'[t].result = "saved"

\* What C9 asks of that step.
ProviderUpserted(t) ==
  LET form == frame[t].form
      existing == {i \in DOMAIN providers : providers[i].npi = form.providerNPI}
  IN  IF existing # {}
        THEN /\ Len(providers') = Len(providers)
             /\ \E i \in existing :
                  providers' = [providers EXCEPT ![i].orderCount = @ + 1]
        ELSE providers' = Append(providers, [name |-> form.referringProvider,
                                             npi |-> form.providerNPI,
                                             orderCount |-> 1])

OneProviderPerNPI ==
  \A i, j \in DOMAIN providers : providers[i].npi = providers[j].npi => i = j

EveryProviderIsNamed ==
  \A i \in DOMAIN providers :
    providers[i].npi # Undefined /\ providers[i].name # Undefined

\* C9: saving an order whose NPI has a provider record adds one to that
\* record's orderCount and creates no record; without one it creates the
\* record with the name, the NPI and orderCount 1.  So there is at most one
\* provider record per NPI and each carries an NPI and a name.
C9_ProviderUpsert ==
  /\ [][\A t \in Tasks : ProviderWritten(t) => ProviderUpserted(t)]_vars
  /\ [](OneProviderPerNPI /\ EveryProviderIsNamed)

\* The step in which the patient write of updatePatientMaster takes effect.
PatientWritten(t) == pc[t] = "patientWrite" /\ pc'[t] # "patientWrite" /\ patients' # patients

\* What C10 asks of that step.
PatientUpserted(t) ==
  LET form == frame[t].form
      existing == {i \in DOMAIN patients : patients[i].mrn = form.patientMRN}
  IN  IF existing # {}
        THEN \E i \in existing :
               patients' = [patients EXCEPT ![i].totalOrders = @ + 1]
        ELSE /\ Len(patients') = Len(patients) + 1
             /\ patients'[Len(patients')].mrn = form.patientMRN
             /\ patients'[Len(patients')].totalOrders = 1
             /\ SubSeq(patients', 1, Len(patients)) = patients

\* With no run in flight: one patient record for the MRN of every order,
\* counting the stored orders of that MRN.
PatientsCountOrders ==
  (\A t \in Tasks : pc[t] = "idle") =>
    \A k \in DOMAIN orders :
      LET mrn == orders[k].patientMRN
          records == {i \in DOMAIN patients : patients[i].mrn = mrn}
      IN  /\ Cardinality(records) = 1
          /\ \A i \in records :
               patients[i].totalOrders =
                 Cardinality({j \in DOMAIN orders : orders[j].patientMRN = mrn})

\* C10: updatePatientMaster creates the patient record with totalOrders 1
\* when none has the MRN and otherwise adds one to the existing record's
\* totalOrders without creating a record; after any order creations and
\* versioned updates of one session at a time there is exactly one patient
\* record per MRN and its totalOrders is the number of stored orders with
\* that MRN.
C10_PatientMasterCountsOrders ==
  /\ [][\A t \in Tasks : PatientWritten(t) => PatientUpserted(t)]_vars
  /\ []PatientsCountOrders

(***************************************************************************)
(* The duplicate detector: C11 to C14.                                     *)
(***************************************************************************)
SameNameIgnoringCase(document, fn, ln) ==
  /\ toLowerCase(document.patientFirstName) = toLowerCase(fn)
  /\ toLowerCase(document.patientLastName) = toLowerCase(ln)

\* C11: in every state of the store, any two orders with the same MRN have
\* the same patient first and last name, compared without case; also when
\* the form is submitted before the debounced duplicate check has run or
\* after a query of the check has failed.
C11_OneNamePerMRN ==
  \A i, j \in DOMAIN orders :
    orders[i].patientMRN = orders[j].patientMRN =>
      SameNameIgnoringCase(orders[i], orders[j].patientFirstName,
                           orders[j].patientLastName)

HasPatientError(ws) ==
  \E k \in DOMAIN ws : ws[k].type = "patient" /\ ws[k].severity = "error"

\* Some stored order has the MRN of the form under another name.
MRNUnderOtherName(form) ==
  /\ form.patientFirstName # <<>>
  /\ form.patientLastName # <<>>
  /\ \E i \in DOMAIN orders :
       /\ orders[i].patientMRN = form.patientMRN
       /\ ~SameNameIgnoringCase(orders[i], form.patientFirstName,
                                form.patientLastName)

\* C12: whatever the store holds, if some order has the MRN of the form and
\* a first or last name that differs from the form's without regard to
\* case, every result of checkDuplicates holds a warning of type 'patient'
\* and severity 'error', whichever order the queries return first.
C12_MRNMismatchIsAlwaysReported ==
  \A s \in Sessions :
    MRNUnderOtherName(formData[s]) =>
      \A ws \in CheckDuplicatesResults(formData[s], orders, providers) :
        HasPatientError(ws)

\* Some stored order has the four keys of the form and its patient and
\* provider names.
StoredUnderSameNames(form) ==
  \E i \in DOMAIN orders :
    /\ SameFourFields(orders[i], form)
    /\ orders[i].patientFirstName = form.patientFirstName
    /\ orders[i].patientLastName = form.patientLastName
    /\ orders[i].referringProvider = form.referringProvider

\* C13: if a stored order has the MRN, medication name, primary diagnosis
\* and provider NPI of the form, and its patient and provider names, every
\* result of checkDuplicates holds exactly one warning of type 'order', of
\* severity 'warning', and no warning of severity 'error'.
C13_ExactDuplicateWarnsWithoutBlocking ==
  \A s \in Sessions :
    StoredUnderSameNames(formData[s]) =>
      \A ws \in CheckDuplicatesResults(formData[s], orders, providers) :
        /\ Cardinality({k \in DOMAIN ws : ws[k].type = "order"}) = 1
        /\ \A k \in DOMAIN ws : ws[k].type = "order" => ws[k].severity = "warning"
        /\ ~HasErrorWarning(ws)

HasProviderError(ws) ==
  \E k \in DOMAIN ws : ws[k].type = "provider" /\ ws[k].severity = "error"

\* The provider name and a 10-digit NPI are typed.
ProviderFieldsPresent(form) ==
  /\ form.referringProvider # <<>>
  /\ MatchesDigits(form.providerNPI, NPILength)

\* Some provider record has the name of the form under another NPI, or the
\* NPI of the form under another name.
ProviderConflict(form) ==
  \E i \in DOMAIN providers :
    \/ providers[i].name = form.referringProvider
          /\ providers[i].npi # form.providerNPI
    \/ providers[i].npi = form.providerNPI
          /\ toLowerCase(providers[i].name) # toLowerCase(form.referringProvider)

\* The place of a warning in the fixed order of the five checks.
CheckRank(w) ==
  IF w.message = "MRN MISMATCH" THEN 1
  ELSE IF w.message = "PATIENT NAME MISMATCH" THEN 2
  ELSE IF w.message = "POTENTIAL DUPLICATE" THEN 3
  ELSE IF w.message = "NPI MISMATCH" THEN 4
  ELSE 5

\* C14: checkDuplicates emits a warning of type 'provider' and severity
\* 'error' whenever some provider record has the submitted name with another
\* NPI and whenever some provider record has the submitted NPI with a name
\* that differs without regard to case; the provider checks do not depend
\* on the patient and order checks, and the warnings come in the order MRN
\* mismatch, name mismatch, duplicate order, provider by name, provider by
\* NPI.
C14_ProviderMismatchIsAlwaysReported ==
  \A s \in Sessions :
    \A ws \in CheckDuplicatesResults(formData[s], orders, providers) :
      /\ ProviderFieldsPresent(formData[s]) /\ ProviderConflict(formData[s]) =>
           HasProviderError(ws)
      /\ \A k, l \in DOMAIN ws : k < l => CheckRank(ws[k]) < CheckRank(ws[l])

(***************************************************************************)
(* The review tab: C15 to C17.                                             *)
(***************************************************************************)
\* A step that sends the updateDoc of handleSubmitFeedback.
SubmitFeedbackSent == reviewPc # "submitWrite" /\ reviewPc' = "submitWrite"

\* A step in which that updateDoc takes effect.
SubmitFeedbackWritten == reviewPc = "submitWrite" /\ reviewPc' = "refresh"

\* C15: handleSubmitFeedback sends its write only with a selected order, a
\* pharmacist name and a feedback list that is not empty, and the write is
\* of that list; the write sets the order's approvalStatus to 'approved'
\* exactly when every item of the list is approved and to
\* 'corrections_pending' exactly when some item is not; and no step of the
\* review tab changes the store while none of its writes is under way.
C15_FeedbackSetsAggregateStatus ==
  [][/\ SubmitFeedbackSent =>
          /\ selectedOrder # <<>> /\ feedback # <<>> /\ pharmacistName # <<>>
          /\ reviewFrame'.id = selectedOrder[1].id
          /\ reviewFrame'.pharmacistFeedback = feedback
          /\ UNCHANGED store
     /\ SubmitFeedbackWritten =>
          LET fs == reviewFrame.pharmacistFeedback
              written == orders'[reviewFrame.id]
          IN /\ fs # <<>>
             /\ written.pharmacistFeedback = fs
             /\ written.approvalStatus = "approved" <=>
                  \A k \in DOMAIN fs : fs[k].approved
             /\ written.approvalStatus = "corrections_pending" <=>
                  \E k \in DOMAIN fs : ~fs[k].approved
     /\ reviewPc = "idle" /\ pc' = pc => UNCHANGED store]_vars

\* Two items, one of them not approved, were submitted for an order.
C15_Witness ==
  \E i \in DOMAIN orders :
    /\ orders[i].approvalStatus = "corrections_pending"
    /\ Len(orders[i].pharmacistFeedback) = 2
    /\ \E k \in 1..2 : orders[i].pharmacistFeedback[k].approved

\* C16: every write of handleSubmitFeedback leaves the order with the
\* correctionHistory it had in the store, followed by one entry for each
\* submitted feedback item, in the order of the items.
C16_CorrectionHistoryOnlyGrows ==
  [][SubmitFeedbackWritten =>
       LET fs == reviewFrame.pharmacistFeedback
           before == orders[reviewFrame.id].correctionHistory
           after == orders'[reviewFrame.id].correctionHistory
       IN /\ IsPrefix(before, after)
          /\ Len(after) = Len(before) + Len(fs)
          /\ \A k \in DOMAIN fs :
               after[Len(before) + k].feedbackId = fs[k].feedbackId]_vars

\* A step that starts or ends a run of handleRegenerateCarePlan.
RegenerateStep == regenerating' # regenerating

\* A step that sends the updateDoc of handleAcceptImprovedPlan.
AcceptSent == reviewPc # "acceptWrite" /\ reviewPc' = "acceptWrite"

\* A step in which that updateDoc takes effect.
AcceptWritten == reviewPc = "acceptWrite" /\ reviewPc' = "refresh"

\* C17: no step of handleRegenerateCarePlan changes the store; the care
\* plan of a stored order changes only when the write of
\* handleAcceptImprovedPlan takes effect, and that write sets the order's
\* carePlan to the candidate the session held when Accept was pressed and
\* its approvalStatus to 'approved'.
C17_OnlyAcceptPersistsCandidate ==
  [][/\ RegenerateStep => UNCHANGED store
     /\ AcceptSent =>
          /\ improvedCarePlan # NoPlan
          /\ reviewFrame'.carePlan = improvedCarePlan
          /\ UNCHANGED store
     /\ AcceptWritten =>
          /\ orders'[reviewFrame.id].carePlan = reviewFrame.carePlan
          /\ orders'[reviewFrame.id].approvalStatus = "approved"
     /\ \A i \in DOMAIN orders :
          orders'[i].carePlan # orders[i].carePlan =>
            AcceptWritten /\ i = reviewFrame.id]_vars

\* A regeneration has come back with a candidate that differs from the plan
\* of the selected order in the store.
C17_Witness ==
  /\ ~regenerating
  /\ improvedCarePlan # NoPlan
  /\ selectedOrder # <<>>
  /\ orders[selectedOrder[1].id].carePlan # improvedCarePlan
  /\ orders[selectedOrder[1].id].approvalStatus # "approved"

(***************************************************************************)
(* The export: C18.                                                        *)
(***************************************************************************)
\* The day of an instant.
DayOf(ts) == ts \div TicksPerDay

\* The orders the filters ask for: created on the start date or later, on
\* the end date or earlier, with the filter text in the medication name,
\* letter case aside; an empty or blank filter asks for every order.
Wanted(ords, start, end, med) ==
  {i \in DOMAIN ords :
     /\ start # <<>> => DayOf(ords[i].timestamp) >= start[1]
     /\ end # <<>> => DayOf(ords[i].timestamp) <= end[1]
     /\ trim(med) # <<>> =>
          Includes(toLowerCase(ords[i].medicationName), toLowerCase(med))}

\* C18: a run of handleExport that read the store hands over exactly the
\* orders that its three filters ask for, each once; when there is none it
\* alerts, produces no file and leaves the summary counts as they were.
C18_ExportMatchesFilters ==
  [][exported' # exported /\ exported'.kind # "error" =>
       LET wanted == Wanted(orders, exported'.startDate, exported'.endDate,
                            exported'.medFilter)
       IN /\ Range(exported'.ids) = wanted
          /\ Len(exported'.ids) = Cardinality(wanted)
          /\ exported'.kind = "alert" <=> wanted = {}
          /\ exported'.kind = "alert" => stats' = stats]_vars

(***************************************************************************)
(* The frame of the versioned update: C19.                                 *)
(***************************************************************************)
\* The fields a versioned update may change.
UpdateWrites ==
  {"additionalDiagnoses", "medicationHistory", "patientRecords", "carePlan",
   "history", "lastUpdated"}

\* C19: the step in which the updateDoc of handleSubmitUpdate takes effect
\* changes, of the matched order, only additionalDiagnoses,
\* medicationHistory, patientRecords, carePlan, history and lastUpdated, and
\* it changes no other order and adds none.
C19_UpdateChangesOnlyItsFields ==
  [][\A t \in Tasks :
       UpdateWritten(t) =>
         LET id == frame[t].dup[1].id
         IN /\ DOMAIN orders' = DOMAIN orders
            /\ \A j \in DOMAIN orders \ {id} : orders'[j] = orders[j]
            /\ \A field \in DOMAIN orders[id] \ UpdateWrites :
                 orders'[id][field] = orders[id][field]]_vars

\* Of two stored orders one has been updated: it has a new plan and a
\* history, the other has neither.
C19_Witness ==
  /\ Len(orders) = 2
  /\ \E i, j \in DOMAIN orders :
       /\ orders[i].history # <<>>
       /\ orders[i].carePlan = "plan2"
       /\ orders[j].history = <<>>
       /\ orders[j].carePlan = "plan1"

(***************************************************************************)
(* Master records beside every order: C20.                                 *)
(***************************************************************************)
\* No handler run is under way.
Quiet == \A t \in Tasks : pc[t] = "idle"

\* Every stored order has a patient record with its MRN and a provider
\* record with its NPI.
EveryOrderHasMasterRecords ==
  \A i \in DOMAIN orders :
    /\ \E p \in DOMAIN patients : patients[p].mrn = orders[i].patientMRN
    /\ \E q \in DOMAIN providers : providers[q].npi = orders[i].providerNPI

\* The addDoc of the order of run t has taken effect: submitOrder is at one
\* of the awaits that follow it.
OrderWrittenBy(t) ==
  /\ frame[t].kind = "submit"
  /\ pc[t] \in {"patientQuery", "patientWrite", "providerQuery", "providerWrite"}

\* A step in which the submission of run t reports failure.
SubmitFailureReported(t) ==
  /\ calls[t].op = "handleSubmit"
  /\ calls[t].result = "running"
  /\ calls'[t].result = "failed"

\* C20: whenever the runs have all ended, every stored order has a patient
\* record with its MRN and a provider record with its NPI, whichever calls
\* failed on the way; and a submission reports failure only when its order
\* has not been written.
C20_OrdersHaveMasterRecords ==
  [][/\ Quiet' => EveryOrderHasMasterRecords'
     /\ \A t \in Tasks : SubmitFailureReported(t) => ~OrderWrittenBy(t)]_vars

(***************************************************************************)
(* utils/validation.ts: the validators and the batch validator.            *)
(***************************************************************************)
Null == <<"null">>

\* !v || typeof v !== 'string' for the values the model passes: null,
\* undefined and the empty string.
NotAText(v) == v \in {Null, Undefined} \/ v = <<>>

\* v || '', the argument validateAllFields passes on.
OrEmpty(v) == IF v \in {Null, Undefined} THEN <<>> ELSE v

\* The characters U+00C0 to U+00FF, the range written in the class of
\* validateName.
LatinRange ==
  {"À", "Á", "Â", "Ã", "Ä", "Å", "Æ", "Ç", "È", "É", "Ê", "Ë", "Ì", "Í", "Î", "Ï",
   "Ð", "Ñ", "Ò", "Ó", "Ô", "Õ", "Ö", "×", "Ø", "Ù", "Ú", "Û", "Ü", "Ý", "Þ", "ß",
   "à", "á", "â", "ã", "ä", "å", "æ", "ç", "è", "é", "ê", "ë", "ì", "í", "î", "ï",
   "ð", "ñ", "ò", "ó", "ô", "õ", "ö", "÷", "ø", "ù", "ú", "û", "ü", "ý", "þ", "ÿ"}

\* /^[a-zA-ZÀ-ÿ\s'-]+$/
MatchesLatinName(text) ==
  /\ Len(text) >= 1
  /\ \A i \in DOMAIN text :
       text[i] \in Upper \cup Lower \cup LatinRange \cup Whitespace \cup {"'", "-"}

\* /\d/
HasDigit(text) == \E i \in DOMAIN text : text[i] \in Digits

\* /^[A-Z][0-9]{2}\.?[0-9A-Z]*$/i
MatchesICDAnyCase(text) ==
  /\ Len(text) >= 3
  /\ text[1] \in Upper \cup Lower
  /\ text[2] \in Digits
  /\ text[3] \in Digits
  /\ LET rest == SubSeq(text, 4, Len(text))
         tail == IF rest # <<>> /\ Head(rest) = "." THEN Tail(rest) ELSE rest
     IN  \A i \in DOMAIN tail : tail[i] \in Digits \cup Upper \cup Lower

\* validateMRN with the test applied to the text as given.
validateMRNUntrimmed(mrn) ==
  IF NotAText(mrn) THEN FALSE ELSE MatchesDigits(mrn, MRNLength)

validateMRN(mrn) ==
  IF NotAText(mrn) THEN FALSE ELSE MatchesDigits(trim(mrn), MRNLength)

validateNPI(npi) ==
  IF NotAText(npi) THEN FALSE ELSE MatchesDigits(trim(npi), NPILength)

validateICD10(code) ==
  IF NotAText(code) THEN FALSE ELSE MatchesICDAnyCase(trim(code))

validateName(name) ==
  IF NotAText(name) THEN FALSE
  ELSE LET trimmed == trim(name)
       IN  IF Len(trimmed) = 0 THEN FALSE
           ELSE MatchesLatinName(trimmed) /\ ~HasDigit(trimmed)

\* Boolean(value && value.trim().length > 0)
validateRequiredField(v) == ~NotAText(v) /\ Len(trim(v)) > 0

BatchRequired ==
  [patientFirstName |-> "First name is required",
   patientLastName |-> "Last name is required",
   patientMRN |-> "MRN is required",
   primaryDiagnosis |-> "Primary diagnosis is required",
   providerNPI |-> "Provider NPI is required",
   referringProvider |-> "Referring provider is required",
   medicationName |-> "Medication name is required",
   patientRecords |-> "Patient records are required"]

\* The else-if branch of a field of validateAllFields: the message of its
\* format test, NoError when the field has none or passes it.
BatchFormat(field, v) ==
  IF field \in {"patientFirstName", "patientLastName"} /\ ~validateName(v) THEN MsgName
  ELSE IF field = "patientMRN" /\ ~validateMRN(v) THEN MsgMRN
  ELSE IF field = "primaryDiagnosis" /\ ~validateICD10(v) THEN MsgICD
  ELSE IF field = "providerNPI" /\ ~validateNPI(v) THEN MsgNPI
  ELSE NoError

\* The message validateAllFields has for a field, NoError for none.
BatchMessage(formData_, field) ==
  LET v == OrEmpty(formData_[field])
  IN  IF ~validateRequiredField(v) THEN BatchRequired[field]
      ELSE BatchFormat(field, v)

\* validateAllFields with the required test left out.
validateAllFieldsFormatOnly(formData_) ==
  LET bad == {f \in DOMAIN BatchRequired :
                BatchFormat(f, OrEmpty(formData_[f])) # NoError}
  IN  [f \in bad |-> BatchFormat(f, OrEmpty(formData_[f]))]

validateAllFields(formData_) ==
  LET bad == {f \in DOMAIN BatchRequired : BatchMessage(formData_, f) # NoError}
  IN  [f \in bad |-> BatchMessage(formData_, f)]

\* requiredFields.every(field => validateRequiredField(formData[field] || ''))
validateRequiredFields(formData_) ==
  \A f \in DOMAIN BatchRequired : validateRequiredField(OrEmpty(formData_[f]))

\* Whitespace typed before or after a text.
Paddings == {<<>>, <<" ">>, <<"\t">>, <<" ", "\n">>}

\* Texts handed to the validators: record numbers of five, six and seven
\* digits, with a letter, a hyphen or a space inside; names that are plain,
\* hyphenated, with an apostrophe, compound, accented, with a digit, with a
\* symbol, with a multiplication or division sign, with a tab inside;
\* diagnosis codes in either case; provider numbers of nine and ten digits.
Cores ==
  {<<>>,
   <<"1", "2", "3", "4", "5">>,
   <<"1", "2", "3", "4", "5", "6">>,
   <<"0", "0", "0", "0", "0", "0">>,
   <<"1", "2", "3", "4", "5", "6", "7">>,
   <<"1", "2", "3", "4", "5", "a">>,
   <<"1", "2", "-", "3", "4", "5">>,
   <<"1", "2", "3", " ", "4", "5", "6">>,
   <<"1", "2", "3", "4", "5", "6", "7", "8", "9">>,
   <<"1", "2", "3", "4", "5", "6", "7", "8", "9", "0">>,
   <<"J", "o", "h", "n">>,
   <<"A", "n", "n", "-", "M">>,
   <<"O", "'", "B">>,
   <<"D", "e", " ", "L", "a">>,
   <<"J", "o", "s", "é">>,
   <<"Ç", "a">>,
   <<"J", "o", "1">>,
   <<"J", "@", "D">>,
   <<"×">>,
   <<"A", "÷", "B">>,
   <<"A", "\t", "B">>,
   <<"G", "7", "0", ".", "0">>,
   <<"g", "7", "0", ".", "0">>,
   <<"G", "7">>}

ValidatorArguments ==
  {Null, Undefined}
    \cup {lead \o core \o trail : lead \in Paddings, core \in Cores, trail \in Paddings}

\* A call validateX(argument) of one of the five validators.
CallValidator(fn) ==
  /\ returned' =
       [fn |-> fn,
        result |-> CASE fn = "validateMRN" -> validateMRN(argument)
                     [] fn = "validateNPI" -> validateNPI(argument)
                     [] fn = "validateICD10" -> validateICD10(argument)
                     [] fn = "validateName" -> validateName(argument)
                     [] fn = "validateRequiredField" -> validateRequiredField(argument)]
  /\ UNCHANGED <<checks, argument, exportTab, review, store, now, ui, pc, frame, calls>>

Validators ==
  {"validateMRN", "validateNPI", "validateICD10", "validateName",
   "validateRequiredField"}

InitValidators ==
  /\ InitStore
  /\ InitTabs
  /\ argument \in ValidatorArguments
  /\ returned = NotCalled

NextValidators == \E fn \in Validators : CallValidator(fn)

\* The validators applied to every text of ValidatorArguments.
SpecValidators == InitValidators /\ [][NextValidators]_vars

(***************************************************************************)
(* The validators: C21 and C22.                                            *)
(***************************************************************************)
\* A text is n decimal digits with nothing but whitespace before and after.
PaddedDigits(text, n) ==
  \E i \in 0..Len(text) :
    /\ i + n <= Len(text)
    /\ \A k \in 1..i : text[k] \in Whitespace
    /\ \A k \in (i + 1)..(i + n) : text[k] \in Digits
    /\ \A k \in (i + n + 1)..Len(text) : text[k] \in Whitespace

\* C21: validateMRN returns true exactly for a string that is six decimal
\* digits between leading and trailing whitespace; it returns false for
\* null and undefined, for the empty and the whitespace-only string, and
\* for digits with a space inside.
C21_MRNIsSixDigitsTrimmed ==
  returned.fn = "validateMRN" =>
    (returned.result <=>
       argument \notin {Null, Undefined} /\ PaddedDigits(argument, 6))

\* validateMRN has accepted a record number typed with whitespace around it.
C21_Witness ==
  /\ returned.fn = "validateMRN"
  /\ returned.result
  /\ Head(argument) \in Whitespace
  /\ argument[Len(argument)] \in Whitespace

\* The letters of the range U+00C0 to U+00FF: all of it but the
\* multiplication sign and the division sign.
AccentedLetters == LatinRange \ {"×", "÷"}

\* A text without its leading and trailing whitespace, position by position.
Inner(text) ==
  LET solid == {k \in DOMAIN text : text[k] \notin Whitespace}
  IN  IF solid = {} THEN <<>>
      ELSE LET first == CHOOSE k \in solid : \A j \in solid : k <= j
               last == CHOOSE k \in solid : \A j \in solid : j <= k
           IN  SubSeq(text, first, last)

\* C22: validateName returns true exactly for a string whose trimmed text is
\* not empty and has only letters, accented Latin letters included,
\* whitespace, hyphens and apostrophes.
C22_NameHasOnlyLetters ==
  returned.fn = "validateName" /\ argument \notin {Null, Undefined} =>
    (returned.result <=>
       /\ Inner(argument) # <<>>
       /\ \A k \in DOMAIN Inner(argument) :
            Inner(argument)[k] \in
              Upper \cup Lower \cup AccentedLetters \cup Whitespace \cup {"'", "-"})

(***************************************************************************)
(* The batch validator: C23.                                               *)
(***************************************************************************)
\* What a field of a record handed to the batch validator may hold instead
\* of its well-formed text: nothing, the empty text, whitespace, a text its
\* format test rejects (or, for a field without one, a one-letter text).
FieldVariants(field) ==
  {Undefined, <<>>, <<" ", "\t">>}
    \cup (CASE field \in {"patientFirstName", "patientLastName"} -> {<<"J", "o", "1">>}
            [] field = "patientMRN" -> {<<"1", "2", "3", "4", "5">>}
            [] field = "primaryDiagnosis" -> {<<"1", "2", "3", "4", "5">>}
            [] field = "providerNPI" -> {<<"1", "2", "3", "4", "5", "6", "7", "8", "9">>}
            [] OTHER -> {<<"x">>})

\* Ann Lee's record as it is, with one field replaced, and with two.
BatchInputs ==
  {FormA}
    \cup UNION {{With(FormA, f, v) : v \in FieldVariants(f)} : f \in TextFields}
    \cup UNION {{With(With(FormA, pair[1], v), pair[2], w) :
                   v \in FieldVariants(pair[1]), w \in FieldVariants(pair[2])} :
                pair \in {q \in TextFields \X TextFields : q[1] # q[2]}}

\* A call validateAllFields(argument).
CallValidateAllFields ==
  /\ returned' = [fn |-> "validateAllFields", result |-> validateAllFields(argument)]
  /\ UNCHANGED <<checks, argument, exportTab, review, store, now, ui, pc, frame, calls>>

\* A call validateRequiredFields(argument).
CallValidateRequiredFields ==
  /\ returned' = [fn |-> "validateRequiredFields",
                  result |-> validateRequiredFields(argument)]
  /\ UNCHANGED <<checks, argument, exportTab, review, store, now, ui, pc, frame, calls>>

InitBatch ==
  /\ InitStore
  /\ InitTabs
  /\ argument \in BatchInputs
  /\ returned = NotCalled

NextBatch ==
  \/ CallValidateAllFields
  \/ CallValidateRequiredFields

\* The two batch validators applied to every record of BatchInputs.
SpecBatch == InitBatch /\ [][NextBatch]_vars

\* A field of a record is missing, empty or whitespace.
Missing(v) == Inner(OrEmpty(v)) = <<>>

\* A field of a record passes the validator of its format, if it has one.
WellFormed(field, v) ==
  /\ field \in {"patientFirstName", "patientLastName"} => validateName(v)
  /\ field = "patientMRN" => validateMRN(v)
  /\ field = "primaryDiagnosis" => validateICD10(v)
  /\ field = "providerNPI" => validateNPI(v)

\* C23: the mapping validateAllFields returns has a key exactly for each of
\* the eight checked fields that is blank or malformed (none for a record
\* whose eight fields are valid, one for a valid record with one field
\* emptied, never one for additionalDiagnoses or medicationHistory), and the
\* message of a blank field is its required message, whatever its format
\* test would say.
C23_BatchReportsFirstProblem ==
  returned.fn = "validateAllFields" =>
    LET result == returned.result
    IN  /\ DOMAIN result =
             {f \in TextFields : Missing(argument[f]) \/ ~WellFormed(f, argument[f])}
        /\ \A f \in DOMAIN result :
             IF Missing(argument[f])
               THEN result[f] = BatchRequired[f]
               ELSE result[f] \in {MsgName, MsgMRN, MsgICD, MsgNPI}

\* validateAllFields was given Ann Lee's record with the MRN emptied and
\* has returned a mapping with that one key.
C23_Witness ==
  /\ returned.fn = "validateAllFields"
  /\ argument = With(FormA, "patientMRN", <<>>)
  /\ DOMAIN returned.result = {"patientMRN"}

(***************************************************************************)
(* The two validations of a record: C30.                                   *)
(***************************************************************************)
\* The forms of FormInputs, and Ann Lee's order typed with an accented
\* name, with whitespace around the MRN, the NPI or a name, and with a
\* multiplication sign for a name.
SubmitInputs ==
  FormInputs
    \cup {With(FormA, "patientFirstName", <<"J", "o", "s", "é">>),
          With(FormA, "patientFirstName", <<" ", "A", "n", "n">>),
          With(FormA, "patientLastName", <<"×">>),
          With(FormA, "patientMRN", <<" ">> \o MRN1),
          With(FormA, "patientMRN", MRN1 \o <<" ">>),
          With(FormA, "providerNPI", NPI1 \o <<"\n">>),
          With(FormA, "primaryDiagnosis", <<" ">> \o ICD1)}

\* validateAllFields called with the record the form of a session holds.
ValidateForm(s) ==
  /\ argument' = formData[s]
  /\ returned' = [fn |-> "validateAllFields", result |-> validateAllFields(formData[s])]
  /\ UNCHANGED <<checks, exportTab, review, store, now, ui, pc, frame, calls>>

\* The first session has typed one of the forms of SubmitInputs.
InitSubmitValidation ==
  /\ InitStore
  /\ InitValidation
  /\ \E typed \in SubmitInputs :
       formData = [s \in Sessions |->
                     IF s = "s1" THEN SetFields(InitialFormData, typed, FormFields)
                     ELSE InitialFormData]
  /\ InitOtherState

\* One session submits the form it has typed while the store cannot be
\* reached, and the batch validator is called with the record of the form.
NextSubmitValidation ==
  \/ HandleSubmit("t1")
  \/ DupQueryFail("t1")
  \/ ValidateForm("s1")

SpecSubmitValidation == InitSubmitValidation /\ [][NextSubmitValidation]_vars

\* C30: a run of handleSubmit gets past its field validation exactly when
\* validateAllFields, called with the same record, returns the empty mapping.
C30_SubmitAgreesWithBatch ==
  [][HandleSubmit("t1") /\ returned.fn = "validateAllFields"
       /\ argument = formData["s1"] =>
         (calls'["t1"].result # "invalid" <=> DOMAIN returned.result = {})]_vars

(***************************************************************************)
(* Two sessions submitting the same order: C24.                            *)
(***************************************************************************)
\* Two sessions that both enter Ann Lee's order and submit it; every call
\* is answered, in any order.
NextRace ==
  \/ \E s \in Sessions : TypeForm(s, FormA)
  \/ \E s \in Sessions : HandleSubmit(RunOf(s))
  \/ \E t \in Tasks : DupQueryReturn(t, MaxOrders)
  \/ \E t \in Tasks, response \in OkResponsesWith({"plan1"}) : GenerateReturn(t, response)
  \/ \E t \in Tasks : AddOrderDone(t)
  \/ \E t \in Tasks : PatientQueryReturn(t)
  \/ \E t \in Tasks : PatientWriteDone(t)
  \/ \E t \in Tasks : ProviderQueryReturn(t)
  \/ \E t \in Tasks : ProviderWriteDone(t)

SpecRace == Init /\ [][NextRace]_vars

\* C24: a run goes on from its exact-duplicate query to submitOrder only
\* when the store, as the query read it, holds no order with the four keys
\* of its form; and its addDoc, a later call, appends the order to whatever
\* the store holds by then, an order with the same four keys included.
C24_CheckAndWriteAreSeparate ==
  [][\A t \in Tasks :
       /\ DuplicateQueryAnswered(t) /\ pc'[t] = "generate" =>
            \A i \in DOMAIN orders : ~SameFourFields(orders[i], frame[t].form)
       /\ pc[t] = "addOrder" /\ pc'[t] = "patientQuery" =>
            /\ Len(orders') = Len(orders) + 1
            /\ SubSeq(orders', 1, Len(orders)) = orders
            /\ SameFourFields(orders'[Len(orders')], frame[t].form)]_vars

\* The store holds two orders with the same four keys, written by the runs
\* of the two sessions.
C24_Witness ==
  /\ Len(orders) = 2
  /\ SameFourFields(orders[1], orders[2])
  /\ \A t \in {"t1", "t2"} :
       calls[t].op = "handleSubmit" /\ pc[t] \notin {"dupQuery", "generate", "addOrder"}

(***************************************************************************)
(* Two submits of one session: C25.                                        *)
(***************************************************************************)
\* The runs of the first session.
RunsOfFirst == {t \in Tasks : Owner(t) = "s1"}

\* A click on the submit button, which is disabled while loading is set or
\* a warning of severity error is shown: handleSubmit runs.
ClickSubmit(t) ==
  /\ ~loading[Owner(t)]
  /\ blockingErrors(warnings[Owner(t)]) = <<>>
  /\ HandleSubmit(t)

\* One session that enters Ann Lee's order and clicks the submit button
\* whenever it is enabled; the calls are answered, the exact-duplicate
\* query and the write of the order may fail.
NextOverlap ==
  \/ TypeForm("s1", FormA)
  \/ \E t \in RunsOfFirst : ClickSubmit(t)
  \/ \E t \in RunsOfFirst : DupQueryReturn(t, MaxOrders)
  \/ \E t \in RunsOfFirst : DupQueryFail(t)
  \/ \E t \in RunsOfFirst, response \in OkResponsesWith({"plan1"}) :
       GenerateReturn(t, response)
  \/ \E t \in RunsOfFirst : AddOrderDone(t)
  \/ \E t \in RunsOfFirst : AddOrderFail(t)
  \/ \E t \in RunsOfFirst : PatientQueryReturn(t)
  \/ \E t \in RunsOfFirst : PatientWriteDone(t)
  \/ \E t \in RunsOfFirst : ProviderQueryReturn(t)
  \/ \E t \in RunsOfFirst : ProviderWriteDone(t)

SpecOverlap == Init /\ [][NextOverlap]_vars

\* No two orders of the store have the same four keys.
FourKeysAreUnique ==
  \A i, j \in DOMAIN orders : i # j => ~SameFourFields(orders[i], orders[j])

\* C25: at most one run of handleSubmit of a session is under way, from the
\* start of its exact-duplicate query to the end of its writes or its
\* failure, and so the session never stores two orders with the same four
\* keys.
C25_OneSubmissionInFlight ==
  /\ Cardinality({t \in RunsOfFirst : pc[t] # "idle"}) <= 1
  /\ FourKeysAreUnique

(***************************************************************************)
(* checkDuplicates with its awaits: C26.                                   *)
(***************************************************************************)
\* A call of checkDuplicates with this form sends a query.
SendsQuery(form) ==
  PatientChecksRun(form) \/ OrderCheckRuns(form) \/ ProviderChecksRun(form)

\* The timer of the effect fires: checkDuplicates is called with the form
\* of that render and awaits its first query; when the form lets none of
\* the three checks run, it sets the empty list at once.
StartCheck(s) ==
  /\ debounce[s]
  /\ debounce' = [debounce EXCEPT ![s] = FALSE]
  /\ IF SendsQuery(formData[s])
       THEN /\ checks' = [checks EXCEPT ![s] = @ \cup {formData[s]}]
            /\ UNCHANGED warnings
       ELSE /\ warnings' = [warnings EXCEPT ![s] = <<>>]
            /\ UNCHANGED checks
  /\ UNCHANGED <<validation, exportTab, review, store, now, formData, loading,
                 errors, duplicateFound, showDuplicateDialog, showUpdateForm,
                 updateFields, pc, frame>>
  /\ calls' = Forgotten(s)

\* The queries of a call of checkDuplicates are answered: setWarnings(newWarnings).
CheckReturn(s, form) ==
  /\ form \in checks[s]
  /\ checks' = [checks EXCEPT ![s] = @ \ {form}]
  /\ \E newWarnings \in CheckDuplicatesResults(form, orders, providers) :
       warnings' = [warnings EXCEPT ![s] = newWarnings]
  /\ UNCHANGED <<validation, exportTab, review, store, now, formData, loading, errors,
                 duplicateFound, showDuplicateDialog, showUpdateForm, updateFields,
                 debounce, pc, frame>>
  /\ calls' = Forgotten(s)

\* A query of a call of checkDuplicates throws: the catch logs.
CheckFail(s, form) ==
  /\ form \in checks[s]
  /\ checks' = [checks EXCEPT ![s] = @ \ {form}]
  /\ UNCHANGED <<validation, exportTab, review, store, now, formData, warnings, loading,
                 errors, duplicateFound, showDuplicateDialog, showUpdateForm,
                 updateFields, debounce, pc, frame>>
  /\ calls' = Forgotten(s)

\* The store after Ann Lee's order has been submitted and saved.
InitStoreWithOrder ==
  LET form == SetFields(InitialFormData, FormA, FormFields)
  IN  /\ orders = <<NewOrder(form, "plan1", 1)>>
      /\ patients = PatientUpsert(<<>>, form, 0)
      /\ providers = ProviderUpsert(<<>>, form, TRUE)
      /\ now = 2

InitChecks ==
  /\ InitStoreWithOrder
  /\ InitTabs
  /\ InitValidation

\* The forms a session edits between.
CheckForms == {FormA, FormB, FormC, FormD, FormE}

\* One session edits its form over a store that holds Ann Lee's order; the
\* timer fires, and the calls of checkDuplicates are answered in any order
\* or fail.
NextChecks ==
  \/ \E typed \in CheckForms : TypeForm("s1", typed)
  \/ HandleReset("s1")
  \/ StartCheck("s1")
  \/ \E form \in checks["s1"] : CheckReturn("s1", form)
  \/ \E form \in checks["s1"] : CheckFail("s1", form)

SpecChecks == InitChecks /\ [][NextChecks]_vars

\* C26: when the timer is not armed and no call of checkDuplicates is under
\* way, the warnings shown are a result of checkDuplicates for the form as
\* it is.
C26_WarningsAreCurrent ==
  \A s \in Sessions :
    ~debounce[s] /\ checks[s] = {} =>
      warnings[s] \in CheckDuplicatesResults(formData[s], orders, providers)

(***************************************************************************)
(* The review of two orders: C27 to C29.                                   *)
(***************************************************************************)
\* The store after Ann Lee's orders for her two medications have been
\* submitted and saved.
InitStoreWithTwoOrders ==
  LET formA == SetFields(InitialFormData, FormA, FormFields)
      formB == SetFields(InitialFormData, FormB, FormFields)
  IN  /\ orders = <<NewOrder(formA, "plan1", 1), NewOrder(formB, "plan1", 2)>>
      /\ patients = PatientUpsert(PatientUpsert(<<>>, formA, 0), formB, 1)
      /\ providers = ProviderUpsert(<<>>, formA, TRUE)
      /\ now = 3

InitSelect ==
  /\ InitStoreWithTwoOrders
  /\ InitTabs
  /\ InitValidation

\* What the reviewer puts in the form of a feedback item about an order: a
\* correction or an approval of the GOALS section that quotes the
\* medication of the order as the original text.
FeedbackAbout(order) ==
  {[sectionName |-> "GOALS", feedbackType |-> "correction",
    originalText |-> order.data.medicationName, correctedText |-> NewText,
    comment |-> <<>>, approved |-> FALSE],
   [sectionName |-> "GOALS", feedbackType |-> "approval",
    originalText |-> order.data.medicationName, correctedText |-> <<>>,
    comment |-> <<>>, approved |-> TRUE]}

\* The plan the service writes for an order from its feedback.
ImprovedPlanOf(id) == IF id = 1 THEN "improved1" ELSE "improved2"

\* The review tab over the two orders.  The reviewer names herself, selects
\* an order, adds items about the order selected, submits them or asks for
\* an improved plan and accepts it; she selects another order, or cancels,
\* only when the service has answered, and the service answers with the
\* plan of the order selected.  Every call is answered.
NextSelect ==
  \/ MountReview
  \/ RefreshReturn
  \/ \E k \in 1..MaxOrders : ~regenerating /\ SelectOrder(k)
  \/ SetPharmacistName(Pat)
  \/ \E order \in Range(selectedOrder) :
       \E newFeedback \in FeedbackAbout(order) : HandleAddFeedback(newFeedback)
  \/ ~regenerating /\ CancelReview
  \/ HandleSubmitFeedback
  \/ SubmitFeedbackWriteDone
  \/ HandleRegenerateCarePlan
  \/ \E order \in Range(selectedOrder) :
       \E response \in OkResponsesWith({ImprovedPlanOf(order.id)}) :
         RegenerateReturn(response)
  \/ HandleAcceptImprovedPlan
  \/ AcceptWriteDone

SpecSelect == InitSelect /\ [][NextSelect]_vars

\* C27: the feedback items that handleSubmitFeedback and
\* handleAcceptImprovedPlan write to an order are items about that order,
\* and the plan that handleAcceptImprovedPlan writes to it is the plan the
\* service wrote for that order.
C27_WritesBelongToTheOrder ==
  [][/\ SubmitFeedbackWritten \/ AcceptWritten =>
          \A k \in DOMAIN orders'[reviewFrame.id].pharmacistFeedback :
            orders'[reviewFrame.id].pharmacistFeedback[k].originalText =
              orders[reviewFrame.id].medicationName
     /\ AcceptWritten =>
          orders'[reviewFrame.id].carePlan = ImprovedPlanOf(reviewFrame.id)]_vars

\* The care plans of the entries of an order's history.
HistoryPlans(order) == {order.history[k].carePlan : k \in DOMAIN order.history}

\* C28: a step that replaces the care plan of a stored order leaves the
\* replaced text as the carePlan of an entry of the order's history, and
\* no step takes such a text out of the history.
C28_OverwrittenPlansAreInHistory ==
  [][\A i \in DOMAIN orders :
       /\ orders'[i].carePlan # orders[i].carePlan =>
            orders[i].carePlan \in HistoryPlans(orders'[i])
       /\ HistoryPlans(orders[i]) \subseteq HistoryPlans(orders'[i])]_vars

\* C29: every feedback item stored on an order whose approvalStatus is
\* 'approved' has its approved flag set.
C29_ApprovedOrdersHaveApprovedItems ==
  \A i \in DOMAIN orders :
    orders[i].approvalStatus = "approved" =>
      \A k \in DOMAIN orders[i].pharmacistFeedback :
        orders[i].pharmacistFeedback[k].approved
====
